---------------------------- MODULE Spec2Model ----------------------------
(***************************************************************************)
(* Model of the CoopStation opportunity catalogue: the Opportunity and     *)
(* OppCategory tables (accounts/models.py) and the `opportunities` view    *)
(* (accounts/views.py), which filters the stored opportunities by category *)
(* and location, computes the facet counts, paginates the result and       *)
(* builds the filter URLs; the signup and login forms (accounts/forms.py)   *)
(* with the register view that runs them; the Submission, Bookmark, Rating *)
(* and Report tables; and the management commands insert_opps,             *)
(* import_curated_opps and seed_all.  `outcome` is what the last ORM write *)
(* or command run reported to its caller.                                  *)
(*                                                                         *)
(* Python strings are TLA+ strings; an optional value (None or a value) is *)
(* the empty sequence or a one-element sequence.  A QueryDict is a         *)
(* function from the parameter names to the list of values given for that  *)
(* name (an absent name has the empty list).                               *)
(***************************************************************************)
EXTENDS Integers, Sequences, FiniteSets, TLC

VARIABLES categories, opportunities, oppSeq, now, request, response,
          users, students, admins, submissions, workers,
          bookmarks, ratings, reports, versions, outcome

vars == <<categories, opportunities, oppSeq, now, request, response,
          users, students, admins, submissions, workers,
          bookmarks, ratings, reports, versions, outcome>>

(***************************************************************************)
(* Bounds of the model.                                                    *)
(***************************************************************************)
MaxOpps == 2         \* rows of Opportunity in the filter specification
MaxPageOpps == 11    \* rows of Opportunity in the pagination specification
MaxRangeOpps == 41   \* rows of Opportunity in the page-index specification
MaxUrlOpps == 1      \* rows of Opportunity in the filter-URL specification
MaxUsers == 2        \* signups are accepted while fewer users are stored
MaxSubOpps == 1      \* rows of Opportunity in the submission specification
MaxSubmissions == 2  \* rows of Submission
MaxFeedbackOpps == 1 \* rows of Opportunity in the feedback specification
MaxReports == 2      \* rows of Report
MaxImportClock == 5  \* readings of the clock in the import specification
MaxCommandClock == 2 \* readings of the clock in the commands specification
MaxSeedSubmissions == 1  \* seed_all adds submissions while fewer are stored
SeedAttempts == 2    \* attempts of a loop of seed_all (max(200, 20 * target))

(***************************************************************************)
(* Optional values.                                                        *)
(***************************************************************************)
None == <<>>
Some(x) == <<x>>
IsNone(o) == Len(o) = 0
Val(o) == o[1]

\* the id the database gives the next row of a table: above every stored id
\* (the id of a deleted last row is given again; no reference to a deleted
\* row is kept by any table)
NextId(table) ==
    IF table = {} THEN 1
    ELSE 1 + (CHOOSE i \in {r.id : r \in table} : \A r \in table : r.id <= i)

(***************************************************************************)
(* Python string operations used by the view.                              *)
(***************************************************************************)
Char(s, i) == SubSeq(s, i, i)

UpperLetters == "ABCDEFGHIJKLMNOPQRSTUVWXYZ"
LowerLetters == "abcdefghijklmnopqrstuvwxyz"
DigitChars == "0123456789"

\* str.strip(): leading and trailing whitespace removed
RECURSIVE LStrip(_)
LStrip(s) == IF Len(s) > 0 /\ Char(s, 1) = " " THEN LStrip(Tail(s)) ELSE s

RECURSIVE RStrip(_)
RStrip(s) ==
    IF Len(s) > 0 /\ Char(s, Len(s)) = " "
    THEN RStrip(SubSeq(s, 1, Len(s) - 1))
    ELSE s

Strip(s) == RStrip(LStrip(s))

\* str.find(","): the index of the first comma from i on, 0 when there is none
RECURSIVE FindComma(_, _)
FindComma(s, i) ==
    IF i > Len(s) THEN 0
    ELSE IF Char(s, i) = "," THEN i
    ELSE FindComma(s, i + 1)

\* str.split(",", 1): at most one split, at the first comma
SplitFirstComma(s) ==
    LET i == FindComma(s, 1)
    IN  IF i = 0 THEN <<s>>
        ELSE <<SubSeq(s, 1, i - 1), SubSeq(s, i + 1, Len(s))>>

\* case folding of one character, then of a string (the iexact lookup)
LowerMap ==
    [c \in {Char(UpperLetters, i) : i \in 1..Len(UpperLetters)} |->
        Char(LowerLetters, CHOOSE i \in 1..Len(UpperLetters) : Char(UpperLetters, i) = c)]

LowerChar(c) == IF c \in DOMAIN LowerMap THEN LowerMap[c] ELSE c

RECURSIVE Lower(_)
Lower(s) == IF Len(s) = 0 THEN "" ELSE LowerChar(Char(s, 1)) \o Lower(Tail(s))

\* location__iexact: case-insensitive equality; NULL matches nothing
IExact(loc, pattern) == ~IsNone(loc) /\ Lower(Val(loc)) = Lower(pattern)

\* location__startswith: case-sensitive prefix; NULL matches nothing
StartsWith(loc, prefix) ==
    /\ ~IsNone(loc)
    /\ Len(Val(loc)) >= Len(prefix)
    /\ SubSeq(Val(loc), 1, Len(prefix)) = prefix

IsDigit(c) == \E i \in 1..Len(DigitChars) : Char(DigitChars, i) = c
DigitVal(c) == (CHOOSE i \in 1..Len(DigitChars) : Char(DigitChars, i) = c) - 1

RECURSIVE DigitsValue(_, _)
DigitsValue(s, acc) ==
    IF Len(s) = 0 THEN acc
    ELSE DigitsValue(Tail(s), acc * 10 + DigitVal(Char(s, 1)))

\* int(x): None when int() raises ValueError, else the value.  Surrounding
\* whitespace and one sign are accepted.
ParseInt(x) ==
    LET t == Strip(x)
        signed == Len(t) > 0 /\ Char(t, 1) \in {"+", "-"}
        digits == IF signed THEN Tail(t) ELSE t
    IN  IF Len(digits) > 0 /\ \A i \in 1..Len(digits) : IsDigit(Char(digits, i))
        THEN Some(IF signed /\ Char(t, 1) = "-"
                  THEN 0 - DigitsValue(digits, 0)
                  ELSE DigitsValue(digits, 0))
        ELSE None

\* str(i) of an integer
RECURSIVE NatToStr(_)
NatToStr(n) ==
    IF n < 10 THEN Char(DigitChars, n + 1)
    ELSE NatToStr(n \div 10) \o Char(DigitChars, (n % 10) + 1)

IntToStr(i) == IF i < 0 THEN "-" \o NatToStr(0 - i) ELSE NatToStr(i)

(***************************************************************************)
(* The tables.                                                             *)
(***************************************************************************)
\* DEFAULT_CATEGORIES of accounts/models.py, restricted to its first names
DEFAULT_CATEGORIES == <<"Computer Science & IT", "Cybersecurity">>

\* OppCategory.objects.get_or_create(name=name): the row is created with the
\* next id when no row has that name
GetOrCreateCategory(cats, name) ==
    IF \E c \in cats : c.name = name
    THEN cats
    ELSE cats \cup {[id |-> Cardinality(cats) + 1, name |-> name]}

RECURSIVE SeedFrom(_, _)
SeedFrom(cats, i) ==
    IF i > Len(DEFAULT_CATEGORIES) THEN cats
    ELSE SeedFrom(GetOrCreateCategory(cats, DEFAULT_CATEGORIES[i]), i + 1)

\* seed_default_categories(): every default name, in list order
seed_default_categories(cats) == SeedFrom(cats, 1)

\* get_default_category(): the tables after the call and the id returned
get_default_category(cats) ==
    LET seeded == GetOrCreateCategory(seed_default_categories(cats),
                                      "Computer Science & IT")
    IN  [cats |-> seeded,
         id |-> (CHOOSE c \in seeded : c.name = "Computer Science & IT").id]

\* Opportunity.objects.create(category=..., location=...).  category is None
\* when the caller leaves the field to its default; created_at is what
\* timezone.now() returns, the instant of the previous reading or a later one.
CreateOpportunity(category, location, created_at) ==
    /\ IsNone(response)
    /\ created_at \in {now, now + 1}
    /\ IsNone(category) \/ \E c \in categories : category = Some(c.id)
    /\ LET dflt == get_default_category(categories)
           cats == IF IsNone(category) THEN dflt.cats ELSE categories
           cid == IF IsNone(category) THEN dflt.id ELSE Val(category)
       IN  /\ categories' = cats
           /\ opportunities' = opportunities \cup
                  {[id |-> oppSeq + 1, category_id |-> cid,
                    location |-> location, created_at |-> created_at]}
    /\ oppSeq' = oppSeq + 1
    /\ now' = created_at
    /\ UNCHANGED <<request, response>>
    /\ UNCHANGED <<bookmarks, ratings, reports, versions, outcome>>
    /\ UNCHANGED <<users, students, admins, submissions, workers>>

(***************************************************************************)
(* QueryDict (request.GET).                                                *)
(***************************************************************************)
ParamKeys == <<"category", "region", "city", "page">>

\* QueryDict.get(key): the last value, None when the key is absent
Get(params, key) ==
    IF Len(params[key]) = 0 THEN None ELSE Some(params[key][Len(params[key])])

\* QueryDict.pop(key, None)
Pop(params, key) == [params EXCEPT ![key] = <<>>]

\* QueryDict.setlist(key, values)
SetList(params, key, values) == [params EXCEPT ![key] = values]

RECURSIVE EncodeFrom(_, _)
EncodeFrom(params, k) ==
    IF k > Len(ParamKeys) THEN <<>>
    ELSE [i \in 1..Len(params[ParamKeys[k]]) |->
              <<ParamKeys[k], params[ParamKeys[k]][i]>>]
         \o EncodeFrom(params, k + 1)

\* QueryDict.urlencode(): the key=value pairs of the query string, in order
UrlEncode(params) == EncodeFrom(params, 1)

\* request.GET of a request for a URL with the given query string: every
\* key with the values given for it, in the order given
ParseQs(query) ==
    [k \in {ParamKeys[i] : i \in 1..Len(ParamKeys)} |->
        LET given == SelectSeq(query, LAMBDA kv : kv[1] = k)
        IN  [i \in 1..Len(given) |-> given[i][2]]]

\* f"{reverse('opportunities')}{('?' + qs_str) if qs_str else ''}"
Url(query) == [path |-> "/opportunities/", query |-> query]

(***************************************************************************)
(* The opportunities view.                                                 *)
(***************************************************************************)
\* REGIONS_AND_CITIES, restricted to three of its regions
REGIONS_AND_CITIES ==
    [r \in {"Riyadh", "Makkah", "Eastern Province"} |->
        CASE r = "Riyadh" -> <<"Riyadh", "Al Kharj">>
          [] r = "Makkah" -> <<"Jeddah", "Makkah", "Taif">>
          [] r = "Eastern Province" -> <<"Dammam", "Khobar">>]

Regions == DOMAIN REGIONS_AND_CITIES
CitiesOf(r) == {REGIONS_AND_CITIES[r][i] : i \in 1..Len(REGIONS_AND_CITIES[r])}

PerPage == 5
Window == 2

\* faulty variant: order_by("-created_at", "id")
ComesBeforeIdAscending(o, p) ==
    \/ o.created_at > p.created_at
    \/ o.created_at = p.created_at /\ o.id < p.id

\* order_by("-created_at", "-id")
ComesBefore(o, p) ==
    \/ o.created_at > p.created_at
    \/ o.created_at = p.created_at /\ o.id > p.id

RECURSIVE OrderBy(_)
OrderBy(qs) ==
    IF qs = {} THEN <<>>
    ELSE LET first == CHOOSE o \in qs : \A p \in qs \ {o} : ComesBefore(o, p)
         IN  <<first>> \o OrderBy(qs \ {first})

\* sorted(set(ids))
RECURSIVE Sorted(_)
Sorted(ids) ==
    IF ids = {} THEN <<>>
    ELSE LET least == CHOOSE i \in ids : \A j \in ids : i <= j
         IN  <<least>> \o Sorted(ids \ {least})

\* the ids that int() accepts among the raw category values
ParsedCategoryIds(raw) ==
    {Val(ParseInt(raw[i])) : i \in {j \in 1..Len(raw) : ~IsNone(ParseInt(raw[j]))}}

\* (request.GET.get(key) or "").strip() or None
StrippedParam(GET, key) ==
    LET g == Get(GET, key)
        s == Strip(IF IsNone(g) THEN "" ELSE Val(g))
    IN  IF s = "" THEN None ELSE Some(s)

\* faulty variant: the category is added, never removed
build_toggle_major_urlAddOnly(GET, selected, cat_id) ==
    LET ordered == Sorted(selected \cup {cat_id})
    IN  Url(UrlEncode(SetList(Pop(GET, "page"), "category",
                              [i \in 1..Len(ordered) |-> IntToStr(ordered[i])])))

\* build_toggle_major_url(cat_id)
build_toggle_major_url(GET, selected, cat_id) ==
    LET params == Pop(GET, "page")
        current == IF cat_id \in selected
                   THEN selected \ {cat_id}
                   ELSE selected \cup {cat_id}
        ordered == Sorted(current)
    IN  Url(UrlEncode(SetList(params, "category",
                              [i \in 1..Len(ordered) |-> IntToStr(ordered[i])])))

\* faulty variant: the page parameter is kept
build_clear_majors_urlKeepPage(GET) == Url(UrlEncode(Pop(GET, "category")))

\* build_clear_majors_url()
build_clear_majors_url(GET) ==
    Url(UrlEncode(Pop(Pop(GET, "page"), "category")))

\* faulty variant: the filter applied even when nothing is selected
CategoryFilterAlways(qs, selected) == {o \in qs : o.category_id \in selected}

\* if selected_category_ids: qs = qs.filter(category_id__in=selected_category_ids)
CategoryFilter(qs, selected) ==
    IF selected # {} THEN {o \in qs : o.category_id \in selected} ELSE qs

\* faulty variant: the city is not checked against the region's cities
ValidatedSelectionKeepCity(region0, city0) ==
    LET unknown == ~IsNone(region0) /\ Val(region0) \notin Regions
    IN  [region |-> IF unknown THEN None ELSE region0,
         city |-> IF unknown THEN None ELSE city0]

\* "Validate selections": the region and city kept after the two checks
ValidatedSelection(region0, city0) ==
    LET unknown == ~IsNone(region0) /\ Val(region0) \notin Regions
        region1 == IF unknown THEN None ELSE region0
        city1 == IF unknown THEN None ELSE city0
    IN  [region |-> region1,
         city |-> IF /\ ~IsNone(region1)
                     /\ ~IsNone(city1)
                     /\ Val(city1) \notin CitiesOf(Val(region1))
                  THEN None
                  ELSE city1]

\* faulty variant: only the "Region,City" spelling is matched
LocationFilterNoSpace(qs, region, city) ==
    IF ~IsNone(region) /\ ~IsNone(city)
    THEN {o \in qs : IExact(o.location, Val(region) \o "," \o Val(city))}
    ELSE IF ~IsNone(region)
    THEN {o \in qs : StartsWith(o.location, Val(region) \o ",")}
    ELSE qs

\* the location filter of the list queryset
LocationFilter(qs, region, city) ==
    IF ~IsNone(region) /\ ~IsNone(city)
    THEN {o \in qs :
            \/ IExact(o.location, Val(region) \o "," \o Val(city))
            \/ IExact(o.location, Val(region) \o ", " \o Val(city))}
    ELSE IF ~IsNone(region)
    THEN {o \in qs :
            \/ StartsWith(o.location, Val(region) \o ",")
            \/ StartsWith(o.location, Val(region) \o ", ")}
    ELSE qs

\* faulty variant: the two parts compared with the catalog untrimmed
CountedUnderNoStrip(loc) ==
    IF IsNone(loc) \/ Val(loc) = "" THEN None
    ELSE LET parts == SplitFirstComma(Val(loc))
         IN  IF Len(parts) # 2 THEN None
             ELSE IF parts[1] \in Regions /\ parts[2] \in CitiesOf(parts[1])
             THEN Some(<<parts[1], parts[2]>>)
             ELSE None

\* one step of the counting loop: the (region, city) a stored location adds
\* to, None when the location is skipped
CountedUnder(loc) ==
    IF IsNone(loc) \/ Val(loc) = "" THEN None
    ELSE LET split == SplitFirstComma(Val(loc))
             parts == [i \in 1..Len(split) |-> Strip(split[i])]
         IN  IF Len(parts) # 2 THEN None
             ELSE IF parts[1] \in Regions /\ parts[2] \in CitiesOf(parts[1])
             THEN Some(<<parts[1], parts[2]>>)
             ELSE None

\* counts[r][c] after the loop over base_for_counts
LocationCounts(base_for_counts) ==
    LET under == {<<l, CountedUnder(l)>> : l \in {o.location : o \in base_for_counts}}
    IN  [r \in Regions |->
            [c \in CitiesOf(r) |->
                Cardinality({o \in base_for_counts :
                                <<o.location, Some(<<r, c>>)>> \in under})]]

\* faulty variant: the page count rounded down, plus one
NumPagesFloor(count) == count \div PerPage + 1

\* Paginator.num_pages (orphans = 0, allow_empty_first_page = True)
NumPages(count) ==
    IF count = 0 THEN 1 ELSE (count + PerPage - 1) \div PerPage

\* Paginator.get_page(number): PageNotAnInteger gives page 1, EmptyPage (a
\* number below 1 or above num_pages) gives the last page
GetPageNumber(page_number, num_pages) ==
    IF IsNone(page_number) THEN 1
    ELSE IF Val(page_number) < 1 THEN num_pages
    ELSE IF Val(page_number) > num_pages THEN num_pages
    ELSE Val(page_number)

\* Paginator.page(number).object_list: object_list[bottom:top]
PageSlice(object_list, number) ==
    LET count == Len(object_list)
        bottom == (number - 1) * PerPage
        top == IF bottom + PerPage >= count THEN count ELSE bottom + PerPage
    IN  SubSeq(object_list, bottom + 1, top)

\* faulty variant: a window of one page on each side of the current page
KeptPagesNarrow(current, last) ==
    Sorted({p \in 1..last :
               p = 1 \/ p = last \/ (current - 1 <= p /\ p <= current + 1)})

\* the pages kept by the ellipsis loop, ascending
KeptPages(current, last) ==
    Sorted({p \in 1..last :
               p = 1 \/ p = last \/ (current - Window <= p /\ p <= current + Window)})

\* faulty variant: a gap of one missing page gets no ellipsis entry
RECURSIVE PageRangeWideGap(_, _)
PageRangeWideGap(pages, i) ==
    IF i > Len(pages) THEN <<>>
    ELSE (IF i > 1 /\ pages[i] - pages[i - 1] > 2 THEN <<None>> ELSE <<>>)
         \o <<Some(pages[i])>> \o PageRangeWideGap(pages, i + 1)

\* page_range: a None entry before every page that does not follow its
\* predecessor directly
RECURSIVE PageRange(_, _)
PageRange(pages, i) ==
    IF i > Len(pages) THEN <<>>
    ELSE (IF i > 1 /\ pages[i] - pages[i - 1] > 1 THEN <<None>> ELSE <<>>)
         \o <<Some(pages[i])>> \o PageRange(pages, i + 1)

\* The context the view renders for request.GET = GET on the given tables.
OpportunitiesContext(GET, cats, opps) ==
    LET qs0 == opps
        selected == ParsedCategoryIds(GET["category"])
        selected_category_ids == Sorted(selected)
        qs_for_major_counts == qs0
        qs1 == CategoryFilter(qs0, selected)
        major_count(cid) ==
            Cardinality({o \in qs_for_major_counts : o.category_id = cid})
        categories_ui ==
            [cid \in {c.id : c \in cats} |->
                [id |-> cid,
                 name |-> (CHOOSE c \in cats : c.id = cid).name,
                 count |-> major_count(cid),
                 selected |-> cid \in selected,
                 toggle_url |-> build_toggle_major_url(GET, selected, cid)]]
        validated == ValidatedSelection(StrippedParam(GET, "region"),
                                        StrippedParam(GET, "city"))
        selected_region == validated.region
        selected_city == validated.city
        base_for_counts == qs1
        qs2 == LocationFilter(qs1, selected_region, selected_city)
        object_list == OrderBy(qs2)
        num_pages == NumPages(Len(object_list))
        raw_page == Get(GET, "page")
        page_number ==
            IF IsNone(raw_page) \/ Val(raw_page) = ""
            THEN Some(1)
            ELSE ParseInt(Val(raw_page))
        number == GetPageNumber(page_number, num_pages)
        qs_str == UrlEncode(Pop(GET, "page"))
    IN  [kind |-> "page",
         opportunities |-> PageSlice(object_list, number),
         page_obj |-> [number |-> number,
                       paginator |-> [object_list |-> object_list,
                                      count |-> Len(object_list),
                                      num_pages |-> num_pages]],
         page_range |-> PageRange(KeptPages(number, num_pages), 1),
         categories_ui |-> categories_ui,
         selected_category_ids |-> selected_category_ids,
         clear_majors_url |-> build_clear_majors_url(GET),
         clear_location_url |->
             Url(UrlEncode(Pop(Pop(Pop(GET, "page"), "region"), "city"))),
         location_menu |-> LocationCounts(base_for_counts),
         selected_region |-> selected_region,
         selected_city |-> selected_city,
         extra_qs |-> qs_str,
         clear_all_url |-> Url(<<>>)]

\* GET /opportunities/ by a logged-in user: the view runs on the tables as
\* they are and its context is rendered
Opportunities(GET) ==
    /\ IsNone(response)
    /\ request' = Some(GET)
    /\ response' = Some(OpportunitiesContext(GET, categories, opportunities))
    /\ UNCHANGED <<categories, opportunities, oppSeq, now>>
    /\ UNCHANGED <<bookmarks, ratings, reports, versions, outcome>>
    /\ UNCHANGED <<users, students, admins, submissions, workers>>

\* GET /opportunities/ without a session: login_required redirects
OpportunitiesAnonymous(GET) ==
    /\ IsNone(response)
    /\ request' = Some(GET)
    /\ response' = Some([kind |-> "redirect"])
    /\ UNCHANGED <<categories, opportunities, oppSeq, now>>
    /\ UNCHANGED <<bookmarks, ratings, reports, versions, outcome>>
    /\ UNCHANGED <<users, students, admins, submissions, workers>>

\* the response has been sent; the worker takes the next request
Respond ==
    /\ ~IsNone(response)
    /\ request' = None
    /\ response' = None
    /\ UNCHANGED <<categories, opportunities, oppSeq, now>>
    /\ UNCHANGED <<bookmarks, ratings, reports, versions, outcome>>
    /\ UNCHANGED <<users, students, admins, submissions, workers>>

(***************************************************************************)
(* The register view: signup and login.  Each worker serves one request at *)
(* a time; the database runs in autocommit mode, so every write of a       *)
(* request is visible to the other worker as soon as it is made.           *)
(***************************************************************************)
Workers == {"w1", "w2"}

Idle ==
    [pc |-> "idle", post |-> None, cleaned |-> None, user |-> None,
     response |-> None]

Contains(s, c) == \E i \in 1..Len(s) : Char(s, i) = c

\* forms.EmailField: one "@" with a local part before it and a dotted domain
\* after it, no blank inside
IsEmail(s) ==
    /\ Cardinality({i \in 1..Len(s) : Char(s, i) = "@"}) = 1
    /\ ~Contains(s, " ")
    /\ LET at == CHOOSE i \in 1..Len(s) : Char(s, i) = "@"
       IN  /\ at > 1
           /\ \E i \in (at + 2)..(Len(s) - 1) : Char(s, i) = "."

\* validate_password(p1): the configured validators are not part of the
\* sources; the model takes the one that rejects an all-digit password
PasswordAccepted(p) == \E i \in 1..Len(p) : ~IsDigit(Char(p, i))

\* make_password / check_password
make_password(raw) == <<"hashed", raw>>
check_password(raw, encoded) == encoded = make_password(raw)

Required == "This field is required."

\* SignupForm(request.POST).is_valid(): every field cleaned in order (a
\* CharField strips its value), then clean_username, clean_email and clean()
SignupClean(POST, us) ==
    LET full_name == Strip(POST.full_name)
        username == Strip(Strip(POST.username))
        email0 == Strip(POST.email)
        email == Lower(Strip(email0))
        p1 == Strip(POST.password1)
        p2 == Strip(POST.password2)
        e_full_name ==
            IF full_name = "" THEN {<<"full_name", Required>>} ELSE {}
        e_username ==
            IF username = "" THEN {<<"username", Required>>}
            ELSE IF \E u \in us : u.username = username
            THEN {<<"username", "This username is already taken.">>}
            ELSE {}
        e_email ==
            IF email0 = "" THEN {<<"email", Required>>}
            ELSE IF ~IsEmail(email0)
            THEN {<<"email", "Enter a valid email address.">>}
            ELSE IF \E u \in us : u.email = email
            THEN {<<"email", "This email is already registered.">>}
            ELSE {}
        e_password1 == IF p1 = "" THEN {<<"password1", Required>>} ELSE {}
        e_password2 == IF p2 = "" THEN {<<"password2", Required>>} ELSE {}
        e_match ==
            IF p1 # "" /\ p2 # "" /\ p1 # p2
            THEN {<<"password2", "Passwords do not match.">>}
            ELSE {}
        e_strength ==
            IF p1 # "" /\ ~PasswordAccepted(p1)
            THEN {<<"__all__", "This password is entirely numeric.">>}
            ELSE {}
    IN  [errors |-> e_full_name \cup e_username \cup e_email \cup e_password1
                    \cup e_password2 \cup e_match \cup e_strength,
         cleaned |-> [full_name |-> full_name, username |-> username,
                      email |-> email, password1 |-> p1]]

\* authenticate(username=..., password=...): the user with that username
\* when the password checks, None otherwise
authenticate(username, password, us) ==
    IF IsNone(username) \/ IsNone(password) THEN None
    ELSE LET named == {u \in us : u.username = Val(username)}
         IN  IF named = {} THEN None
             ELSE LET u == CHOOSE u \in named : TRUE
                  IN  IF check_password(Val(password), u.password)
                      THEN Some(u.id)
                      ELSE None

\* faulty variant: an identifier that names no user gets an error of its own
LoginCleanTellsUnknown(POST, us) ==
    LET identifier == Strip(POST.identifier)
        password == Strip(POST.password)
        known == \E u \in us : identifier \in {u.username, u.email}
        user == authenticate(Some(identifier),
                             IF password = "" THEN None ELSE Some(password), us)
    IN  [errors |-> IF ~known THEN {<<"__all__", "No such user.">>}
                    ELSE IF IsNone(user)
                    THEN {<<"__all__", "Invalid username/email or password.">>}
                    ELSE {},
         user |-> user]

\* LoginForm(request.POST).is_valid(): the two fields cleaned, then clean()
LoginClean(POST, us) ==
    LET identifier0 == Strip(POST.identifier)
        password0 == Strip(POST.password)
        identifier == Strip(identifier0)
        password == IF password0 = "" THEN None ELSE Some(password0)
        matching == {u \in us : Lower(u.email) = Lower(identifier)}
        user_obj ==
            IF matching = {} THEN None
            ELSE Some(CHOOSE u \in matching : \A v \in matching : u.id <= v.id)
        username ==
            IF Contains(identifier, "@")
            THEN (IF IsNone(user_obj) THEN None ELSE Some(Val(user_obj).username))
            ELSE Some(identifier)
        user == authenticate(username, password, us)
    IN  [errors |->
             (IF identifier0 = "" THEN {<<"identifier", Required>>} ELSE {})
             \cup (IF password0 = "" THEN {<<"password", Required>>} ELSE {})
             \cup (IF IsNone(user)
                   THEN {<<"__all__", "Invalid username/email or password.">>}
                   ELSE {}),
         user |-> user]

\* the three ways the view answers
Redirect(user) ==
    [kind |-> "redirect", to |-> "opportunities", user |-> Some(user),
     active_tab |-> None, errors |-> {}, messages |-> {}, exception |-> None]

Render(active_tab, errors, message) ==
    [kind |-> "render", to |-> "pages/register.html", user |-> None,
     active_tab |-> Some(active_tab), errors |-> errors,
     messages |-> {message}, exception |-> None]

ServerError(exception) ==
    [kind |-> "error", to |-> "", user |-> None, active_tab |-> None,
     errors |-> {}, messages |-> {}, exception |-> Some(exception)]

\* POST with form_type = "signup": the form is validated; an invalid form
\* is rendered again, a valid one goes on to save()
SignupPost(w, POST) ==
    /\ workers[w].pc = "idle"
    /\ POST.form_type = "signup"
    /\ LET form == SignupClean(POST, users)
       IN  workers' = [workers EXCEPT ![w] =
               IF form.errors = {}
               THEN [pc |-> "create_user", post |-> Some(POST),
                     cleaned |-> Some(form.cleaned), user |-> None,
                     response |-> None]
               ELSE [pc |-> "done", post |-> Some(POST), cleaned |-> None,
                     user |-> None,
                     response |-> Some(Render("signup", form.errors,
                                              "Please fix the signup errors."))]]
    /\ UNCHANGED <<users, students, admins, submissions>>
    /\ UNCHANGED <<categories, opportunities, oppSeq, now, request, response>>
    /\ UNCHANGED <<bookmarks, ratings, reports, versions, outcome>>

\* SignupForm.save(), first write: User.objects.create_user(...).  The
\* username column is unique: a second row with the name raises
\* IntegrityError, which nothing in the view catches.
CreateUser(w) ==
    /\ workers[w].pc = "create_user"
    /\ LET data == Val(workers[w].cleaned)
           id == Cardinality(users) + 1
       IN  IF \E u \in users : u.username = data.username
           THEN /\ users' = users
                /\ workers' = [workers EXCEPT ![w].pc = "done",
                                   ![w].response = Some(ServerError("IntegrityError"))]
           ELSE /\ users' = users \cup
                       {[id |-> id, username |-> data.username,
                         email |-> data.email,
                         password |-> make_password(data.password1)]}
                /\ workers' = [workers EXCEPT ![w].pc = "create_student",
                                   ![w].user = Some(id)]
    /\ UNCHANGED <<students, admins, submissions>>
    /\ UNCHANGED <<categories, opportunities, oppSeq, now, request, response>>
    /\ UNCHANGED <<bookmarks, ratings, reports, versions, outcome>>

\* SignupForm.save(), second write: Student.objects.create(user=user, ...)
CreateStudent(w) ==
    /\ workers[w].pc = "create_student"
    /\ students' = students \cup
           {[id |-> NextId(students), user_id |-> Val(workers[w].user),
             full_name |-> Val(workers[w].cleaned).full_name]}
    /\ workers' = [workers EXCEPT ![w].pc = "get_or_create"]
    /\ UNCHANGED <<users, admins, submissions>>
    /\ UNCHANGED <<categories, opportunities, oppSeq, now, request, response>>
    /\ UNCHANGED <<bookmarks, ratings, reports, versions, outcome>>

\* the second write raises a database error: the exception leaves save()
\* and the view; the first write was committed on its own
CreateStudentFails(w) ==
    /\ workers[w].pc = "create_student"
    /\ workers' = [workers EXCEPT ![w].pc = "done",
                       ![w].response = Some(ServerError("DatabaseError"))]
    /\ UNCHANGED <<users, students, admins, submissions>>
    /\ UNCHANGED <<categories, opportunities, oppSeq, now, request, response>>
    /\ UNCHANGED <<bookmarks, ratings, reports, versions, outcome>>

\* after save(): Student.objects.get_or_create(user=user, defaults=...),
\* auth_login(request, user) and the redirect
LoginNewUser(w) ==
    /\ workers[w].pc = "get_or_create"
    /\ LET id == Val(workers[w].user)
           user == CHOOSE u \in users : u.id = id
       IN  /\ students' =
                  IF \E s \in students : s.user_id = id THEN students
                  ELSE students \cup
                           {[id |-> NextId(students), user_id |-> id,
                             full_name |-> user.username]}
           /\ workers' = [workers EXCEPT ![w].pc = "done",
                              ![w].response = Some(Redirect(id))]
    /\ UNCHANGED <<users, admins, submissions>>
    /\ UNCHANGED <<categories, opportunities, oppSeq, now, request, response>>
    /\ UNCHANGED <<bookmarks, ratings, reports, versions, outcome>>

\* POST with form_type = "login"
LoginPost(w, POST) ==
    /\ workers[w].pc = "idle"
    /\ POST.form_type = "login"
    /\ LET form == LoginClean(POST, users)
       IN  workers' = [workers EXCEPT ![w] =
               [pc |-> "done", post |-> Some(POST), cleaned |-> None,
                user |-> None,
                response |-> Some(IF form.errors = {}
                                  THEN Redirect(Val(form.user))
                                  ELSE Render("login", form.errors,
                                              "Please fix the login errors."))]]
    /\ UNCHANGED <<users, students, admins, submissions>>
    /\ UNCHANGED <<categories, opportunities, oppSeq, now, request, response>>
    /\ UNCHANGED <<bookmarks, ratings, reports, versions, outcome>>

\* the response has been sent; the worker takes the next request
Finish(w) ==
    /\ workers[w].pc = "done"
    /\ workers' = [workers EXCEPT ![w] = Idle]
    /\ UNCHANGED <<users, students, admins, submissions>>
    /\ UNCHANGED <<categories, opportunities, oppSeq, now, request, response>>
    /\ UNCHANGED <<bookmarks, ratings, reports, versions, outcome>>

(***************************************************************************)
(* The Admin and Submission tables.                                        *)
(***************************************************************************)
\* Admin.objects.create(email=...): the email column is unique
CreateAdmin(email) ==
    /\ \A a \in admins : a.email # email
    /\ admins' = admins \cup {[id |-> NextId(admins), email |-> email]}
    /\ UNCHANGED <<users, students, submissions, workers>>
    /\ UNCHANGED <<categories, opportunities, oppSeq, now, request, response>>
    /\ UNCHANGED <<bookmarks, ratings, reports, versions, outcome>>

\* Submission.save(): submitted_by_type derived from the one submitter that
\* is set, left as the caller gave it (NULL when not given) otherwise
SubmittedByType(student, admin, given) ==
    IF ~IsNone(student) /\ IsNone(admin) THEN Some("student")
    ELSE IF ~IsNone(admin) /\ IsNone(student) THEN Some("admin")
    ELSE given

\* Submission(opportunity=..., submitted_by_student=...,
\* submitted_by_admin=..., submitted_by_type=...).save(): the row is
\* inserted; the three foreign keys name stored rows or are NULL
SaveSubmission(opportunity, student, admin, given) ==
    /\ \E o \in opportunities : o.id = opportunity
    /\ IsNone(student) \/ \E st \in students : student = Some(st.id)
    /\ IsNone(admin) \/ \E a \in admins : admin = Some(a.id)
    /\ submissions' = submissions \cup
           {[id |-> NextId(submissions),
             opportunity_id |-> opportunity,
             submitted_by_type |-> SubmittedByType(student, admin, given),
             submitted_by_student_id |-> student,
             submitted_by_admin_id |-> admin,
             status |-> "pending"]}
    /\ UNCHANGED <<users, students, admins, workers>>
    /\ UNCHANGED <<categories, opportunities, oppSeq, now, request, response>>
    /\ UNCHANGED <<bookmarks, ratings, reports, versions, outcome>>

\* on_delete = SET_NULL: the submissions of a deleted student or admin stay,
\* with the reference cleared
SetNull(subs, field, id) ==
    {IF s[field] = Some(id) THEN [s EXCEPT ![field] = None] ELSE s : s \in subs}

\* Student.delete(): bookmarks, ratings and reports of the student go with
\* it (CASCADE), submissions keep their row (SET_NULL); the user stays
DeleteStudent(id) ==
    /\ \E st \in students : st.id = id
    /\ students' = {st \in students : st.id # id}
    /\ bookmarks' = {b \in bookmarks : b.student_id # id}
    /\ ratings' = {r \in ratings : r.student_id # id}
    /\ reports' = {r \in reports : r.student_id # id}
    /\ submissions' = SetNull(submissions, "submitted_by_student_id", id)
    /\ UNCHANGED <<users, admins, workers, versions, outcome>>
    /\ UNCHANGED <<categories, opportunities, oppSeq, now, request, response>>

\* Admin.delete()
DeleteAdmin(id) ==
    /\ \E a \in admins : a.id = id
    /\ admins' = {a \in admins : a.id # id}
    /\ submissions' = SetNull(submissions, "submitted_by_admin_id", id)
    /\ UNCHANGED <<users, students, workers>>
    /\ UNCHANGED <<categories, opportunities, oppSeq, now, request, response>>
    /\ UNCHANGED <<bookmarks, ratings, reports, versions, outcome>>

(***************************************************************************)
(* The Bookmark, Rating and Report tables.  A create is one INSERT, which  *)
(* the database runs atomically: of two racing creates one is run first.   *)
(***************************************************************************)
\* what Model.objects.create reports to its caller
Created(model, id) == Some([op |-> model, error |-> None, id |-> Some(id)])
IntegrityError(model) ==
    Some([op |-> model, error |-> Some("IntegrityError"), id |-> None])

\* UniqueConstraint(fields=["student", "opportunity"])
UniquePair(table, student, opportunity) ==
    \A r \in table : ~(r.student_id = student /\ r.opportunity_id = opportunity)

\* Bookmark.objects.create(student=..., opportunity=...)
CreateBookmark(student, opportunity) ==
    /\ \E st \in students : st.id = student
    /\ \E o \in opportunities : o.id = opportunity
    /\ IF UniquePair(bookmarks, student, opportunity)
       THEN /\ bookmarks' = bookmarks \cup
                   {[id |-> NextId(bookmarks), student_id |-> student,
                     opportunity_id |-> opportunity]}
            /\ outcome' = Created("Bookmark", NextId(bookmarks))
       ELSE /\ bookmarks' = bookmarks
            /\ outcome' = IntegrityError("Bookmark")
    /\ UNCHANGED <<users, students, admins, submissions, workers>>
    /\ UNCHANGED <<categories, opportunities, oppSeq, now, request, response>>
    /\ UNCHANGED <<ratings, reports, versions>>

\* Rating.objects.create(student=..., opportunity=..., overall=...)
CreateRating(student, opportunity, overall) ==
    /\ \E st \in students : st.id = student
    /\ \E o \in opportunities : o.id = opportunity
    /\ IF UniquePair(ratings, student, opportunity)
       THEN /\ ratings' = ratings \cup
                   {[id |-> NextId(ratings), student_id |-> student,
                     opportunity_id |-> opportunity, overall |-> overall]}
            /\ outcome' = Created("Rating", NextId(ratings))
       ELSE /\ ratings' = ratings
            /\ outcome' = IntegrityError("Rating")
    /\ UNCHANGED <<users, students, admins, submissions, workers>>
    /\ UNCHANGED <<categories, opportunities, oppSeq, now, request, response>>
    /\ UNCHANGED <<bookmarks, reports, versions>>

\* Report.objects.create(student=..., opportunity=..., report_type=...):
\* the model declares no constraint on the pair
CreateReport(student, opportunity, report_type) ==
    /\ \E st \in students : st.id = student
    /\ \E o \in opportunities : o.id = opportunity
    /\ reports' = reports \cup
           {[id |-> NextId(reports), student_id |-> student,
             opportunity_id |-> opportunity, report_type |-> report_type,
             status |-> "pending"]}
    /\ outcome' = Created("Report", NextId(reports))
    /\ UNCHANGED <<users, students, admins, submissions, workers>>
    /\ UNCHANGED <<categories, opportunities, oppSeq, now, request, response>>
    /\ UNCHANGED <<bookmarks, ratings, versions>>

(***************************************************************************)
(* The management commands.  Each run is one step: a command is a single   *)
(* process, and no property here speaks of a state in the middle of a run. *)
(* Of every list of category names the model keeps the names               *)
(* "Computer Science & IT" and "Cybersecurity", which all lists hold, and  *)
(* "Arts & Media" and "Other", which the lists of the commands hold and    *)
(* DEFAULT_CATEGORIES of accounts/models.py does not.                      *)
(***************************************************************************)
\* a row of Opportunity as the commands write it
OppRow(id, title, company, location, deadline, status, major, category_id, source_link, last_checked_at, created_at) ==
    [id |-> id, title |-> title, company |-> company, location |-> location,
     deadline |-> deadline, status |-> status, major |-> major,
     category_id |-> category_id, source_link |-> source_link,
     last_checked_at |-> last_checked_at, created_at |-> created_at]

\* DateField.to_python: the value stored for a date given as text is a date
ToDate(text) == [year_month_day |-> text]

CategoryId(cats, name) == (CHOOSE c \in cats : c.name = name).id

\* OppCategory.objects.get_or_create(name=...) for every name of a list
RECURSIVE GetOrCreateAll(_, _, _)
GetOrCreateAll(cats, names, i) ==
    IF i > Len(names) THEN cats
    ELSE GetOrCreateAll(GetOrCreateCategory(cats, names[i]), names, i + 1)

\* Opportunity.objects.filter(company=..., title=...)
ByCompanyAndTitle(opps, company, title) ==
    {o \in opps : o.company = company /\ o.title = title}

\* QuerySet.first(): the row of the smallest id, None when there is none
First(rows) ==
    IF rows = {} THEN None
    ELSE Some(CHOOSE r \in rows : \A q \in rows : r.id <= q.id)

\* a call of get_default_category() on its own (the default of
\* Opportunity.category): the default names are seeded
DefaultCategoryLookup ==
    /\ categories' = get_default_category(categories).cats
    /\ outcome' = Some([op |-> "get_default_category", error |-> None,
                        id |-> Some(get_default_category(categories).id)])
    /\ UNCHANGED <<opportunities, oppSeq, now, request, response>>
    /\ UNCHANGED <<users, students, admins, submissions, workers>>
    /\ UNCHANGED <<bookmarks, ratings, reports, versions>>

(***************************************************************************)
(* insert_opps.                                                            *)
(***************************************************************************)
InsertCategories == <<"Computer Science & IT", "Cybersecurity">>

opportunities_data ==
    <<[title |-> "IT Co-op Trainee", company |-> "AON",
       location |-> "Riyadh,Riyadh", category |-> "Computer Science & IT",
       major |-> "Computer Science, IT, Information Systems"],
      [title |-> "Technology & Events Co-op", company |-> "Webook",
       location |-> "Riyadh,Riyadh", category |-> "Computer Science & IT",
       major |-> "Technology, Marketing, Finance"]>>

\* the loop of insert_opps from entry i on: an entry whose company and title
\* are stored is skipped, the others are created
RECURSIVE InsertFrom(_, _, _)
InsertFrom(db, t, i) ==
    IF i > Len(opportunities_data) THEN db
    ELSE LET data == opportunities_data[i]
         IN  IF ByCompanyAndTitle(db.opportunities, Some(data.company),
                                  data.title) # {}
             THEN InsertFrom([db EXCEPT !.skipped = @ + 1], t, i + 1)
             ELSE InsertFrom(
                      [db EXCEPT
                          !.opportunities = @ \cup
                              {OppRow(db.oppSeq + 1, data.title,
                                      Some(data.company), Some(data.location),
                                      Some(ToDate("2026-12-31")), "open",
                                      Some(data.major),
                                      CategoryId(db.categories, data.category),
                                      None, None, t)},
                          !.oppSeq = @ + 1,
                          !.created = @ + 1], t, i + 1)

\* manage.py insert_opps; created_at is the clock's reading, here the
\* instant of the previous reading
InsertOpps ==
    LET t == now
        db == InsertFrom([categories |-> GetOrCreateAll(categories, InsertCategories, 1),
                          opportunities |-> opportunities, oppSeq |-> oppSeq,
                          created |-> 0, skipped |-> 0], t, 1)
    IN  /\ categories' = db.categories
        /\ opportunities' = db.opportunities
        /\ oppSeq' = db.oppSeq
        /\ now' = t
        /\ outcome' = Some([op |-> "insert_opps", error |-> None,
                            created |-> db.created, skipped |-> db.skipped])
        /\ UNCHANGED <<request, response>>
        /\ UNCHANGED <<users, students, admins, submissions, workers>>
        /\ UNCHANGED <<bookmarks, ratings, reports, versions>>

(***************************************************************************)
(* import_curated_opps.                                                    *)
(***************************************************************************)
ImportCategories ==
    <<"Computer Science & IT", "Cybersecurity", "Arts & Media", "Other">>

InList(names, name) == \E i \in 1..Len(names) : names[i] = name

\* `keyword in text`
HasSubstring(text, keyword) ==
    \E i \in 1..(Len(text) - Len(keyword) + 1) :
        SubSeq(text, i, i + Len(keyword) - 1) = keyword

\* the rules of pick_category_from_text that give a name the model keeps, in
\* the order of the source
CategoryRules ==
    <<[keywords |-> {"cyber", "siem", "soc", "security operations", "infosec"},
       name |-> "Cybersecurity"],
      [keywords |-> {"it", "computer science", "network", "cloud"},
       name |-> "Computer Science & IT"]>>

RECURSIVE PickFrom(_, _)
PickFrom(t, i) ==
    IF i > Len(CategoryRules) THEN "Other"
    ELSE IF \E k \in CategoryRules[i].keywords : HasSubstring(t, k)
         THEN CategoryRules[i].name
         ELSE PickFrom(t, i + 1)

pick_category_from_text(text) == PickFrom(Lower(text), 1)

\* coerce_category(name, majors_text, desc_text)
coerce_category(name, majors_text, desc_text) ==
    IF ~IsNone(name) /\ Val(name) # "" /\ InList(ImportCategories, Strip(Val(name)))
    THEN Strip(Val(name))
    ELSE LET inferred == pick_category_from_text(majors_text \o "\n" \o desc_text)
         IN  IF InList(ImportCategories, inferred) THEN inferred ELSE "Other"

\* normalize_location(raw): "Region,City", the city possibly empty
normalize_location(raw) ==
    IF IsNone(raw) \/ Val(raw) = "" THEN None
    ELSE LET stripped == Strip(Val(raw))
             parts == SplitFirstComma(stripped)
         IN  IF Len(parts) = 2
             THEN Some(Strip(parts[1]) \o "," \o Strip(parts[2]))
             ELSE Some(stripped \o ",")

\* (item.get(key) or "")
OrEmpty(v) == IF IsNone(v) THEN "" ELSE Val(v)

\* text or None
OrNone(text) == IF text = "" THEN None ELSE Some(text)

\* the status of an item: lower-cased, "open" unless "open" or "closed"
ItemStatus(item) ==
    LET status == Lower(IF OrEmpty(item.status) = "" THEN "open"
                        ELSE Val(item.status))
    IN  IF status \in {"open", "closed"} THEN status ELSE "open"

\* the stored opportunity an item names: by source_link first, then by
\* company and title
FindExisting(opps, source_link, company, title) ==
    LET by_link == IF IsNone(source_link) THEN None
                   ELSE First({o \in opps : o.source_link = source_link})
    IN  IF ~IsNone(by_link) THEN by_link
        ELSE First(ByCompanyAndTitle(opps, company, title))

\* OpportunityVersion.objects.create(...)
VersionRow(vers, opportunity, fetched_at, source_link, changed) ==
    [id |-> NextId(vers), opportunity_id |-> opportunity,
     fetched_at |-> fetched_at, source_link |-> source_link,
     content_hash |-> None, changed |-> changed]

\* the deadline column holds a date (or NULL) for the text of the file
DeadlineValue(deadline) == IF IsNone(deadline) THEN None ELSE Some(ToDate(Val(deadline)))

\* getattr(opp, "deadline") != deadline: the loaded row gives a date, the
\* file a text; a date differs from every text and from None
DeadlineDiffers(stored, given) == ~(IsNone(stored) /\ IsNone(given))

\* one pass of the loop of import_curated_opps: the item is skipped, creates
\* an opportunity with its first snapshot, or (with --update-existing) is
\* compared field by field with the stored opportunity, which is saved with
\* a new snapshot when any field differs
ImportItem(db, item, update_existing) ==
    LET company == OrNone(Strip(OrEmpty(item.company)))
        title == Strip(OrEmpty(item.title))
        majors_text == Strip(OrEmpty(item.major))
        cat_name == coerce_category(item.category, majors_text, "")
        cats == GetOrCreateCategory(db.categories, cat_name)
        category_id == CategoryId(cats, cat_name)
        location == normalize_location(item.location)
        status == ItemStatus(item)
        source_link == OrNone(Strip(OrEmpty(item.source_link)))
        found == FindExisting(db.opportunities, source_link, company, title)
        t == db.now + 1
    IN  IF title = "" THEN db
        ELSE IF IsNone(found)
        THEN [db EXCEPT
                 !.categories = cats,
                 !.opportunities = @ \cup
                     {OppRow(db.oppSeq + 1, title, company, location,
                             DeadlineValue(item.deadline), status,
                             OrNone(majors_text), category_id, source_link,
                             Some(t), t)},
                 !.oppSeq = @ + 1,
                 !.versions = @ \cup
                     {VersionRow(db.versions, db.oppSeq + 1, t, source_link, TRUE)},
                 !.now = t,
                 !.created = @ + 1]
        ELSE IF ~update_existing THEN [db EXCEPT !.categories = cats]
        ELSE LET opp == Val(found)
                 changed_any ==
                     \/ opp.location # location
                     \/ DeadlineDiffers(opp.deadline, item.deadline)
                     \/ opp.status # status
                     \/ opp.major # OrNone(majors_text)
                     \/ opp.category_id # category_id
                     \/ opp.source_link # source_link
                     \/ opp.last_checked_at # Some(t)
                 saved == [opp EXCEPT !.location = location,
                                      !.deadline = DeadlineValue(item.deadline),
                                      !.status = status,
                                      !.major = OrNone(majors_text),
                                      !.category_id = category_id,
                                      !.source_link = source_link,
                                      !.last_checked_at = Some(t)]
             IN  IF ~changed_any THEN [db EXCEPT !.categories = cats, !.now = t]
                 ELSE [db EXCEPT
                          !.categories = cats,
                          !.opportunities = (@ \ {opp}) \cup {saved},
                          !.versions = @ \cup
                              {VersionRow(db.versions, opp.id, t, source_link, FALSE)},
                          !.now = t,
                          !.updated = @ + 1]

RECURSIVE ImportFrom(_, _, _, _)
ImportFrom(db, payload, update_existing, i) ==
    IF i > Len(payload) THEN db
    ELSE ImportFrom(ImportItem(db, payload[i], update_existing), payload,
                    update_existing, i + 1)

\* manage.py import_curated_opps --path <file holding payload>
\* [--update-existing]
ImportCurated(payload, update_existing) ==
    LET db == ImportFrom([categories |-> GetOrCreateAll(categories, ImportCategories, 1),
                          opportunities |-> opportunities, oppSeq |-> oppSeq,
                          versions |-> versions, now |-> now,
                          created |-> 0, updated |-> 0],
                         payload, update_existing, 1)
    IN  /\ categories' = db.categories
        /\ opportunities' = db.opportunities
        /\ oppSeq' = db.oppSeq
        /\ versions' = db.versions
        /\ now' = db.now
        /\ outcome' = Some([op |-> "import_curated_opps", error |-> None,
                            payload |-> payload,
                            update_existing |-> update_existing,
                            created |-> db.created, updated |-> db.updated])
        /\ UNCHANGED <<request, response>>
        /\ UNCHANGED <<users, students, admins, submissions, workers>>
        /\ UNCHANGED <<bookmarks, ratings, reports>>

(***************************************************************************)
(* seed_all.  `opts` are the options of the command line; `draws` is what  *)
(* the random generators and the database give the run: the user names,    *)
(* the opportunities drawn, the attempts of the submission, rating and     *)
(* report loops, and for a create whether the database raises an error.    *)
(* The column avg_rating, which the rating stage recomputes, is left out.  *)
(***************************************************************************)
SeedCategories ==
    <<"Computer Science & IT", "Cybersecurity", "Arts & Media", "Other">>

\* ensure_categories()
ensure_categories(cats) == GetOrCreateAll(cats, SeedCategories, 1)

Say(db, message) == [db EXCEPT !.console = Append(@, message)]

\* an exception leaves handle(): the run ends at once
Raise(db, error) == [db EXCEPT !.error = Some(error), !.stopped = TRUE]

\* `return` in the middle of handle()
Return(db) == [db EXCEPT !.stopped = TRUE]

\* TRUNCATE TABLE opportunity RESTART IDENTITY CASCADE: the table and every
\* table with a foreign key to it are emptied
TruncateOpportunities(db) ==
    [db EXCEPT !.opportunities = {}, !.oppSeq = 0, !.versions = {},
               !.bookmarks = {}, !.ratings = {}, !.reports = {},
               !.submissions = {}]

\* Student.objects.all().delete()
DeleteAllStudents(db) ==
    [db EXCEPT !.students = {}, !.bookmarks = {}, !.ratings = {}, !.reports = {},
               !.submissions =
                   {[s EXCEPT !.submitted_by_student_id = None] : s \in @}]

\* the safety guard and the reset block at the head of handle()
SeedReset(db, opts) ==
    IF opts.reset /\ opts.reset_opps /\ opts.opps = 0
    THEN Raise(db, "CommandError")
    ELSE IF ~opts.reset THEN db
    ELSE LET d1 == IF opts.reset_students \/ opts.students > 0
                   THEN Say(DeleteAllStudents(db), "Deleted Student-related objects.")
                   ELSE Say(db, "Not resetting students")
             d2 == IF opts.reset_opps
                   THEN Say(TruncateOpportunities(d1), "TRUNCATED opportunities")
                   ELSE d1
             d3 == IF opts.reset_subs
                   THEN Say([d2 EXCEPT !.submissions = {}], "TRUNCATED submissions")
                   ELSE d2
             d4 == IF opts.reset_ratings
                   THEN Say([d3 EXCEPT !.ratings = {}], "TRUNCATED ratings")
                   ELSE d3
         IN  IF opts.reset_reports
             THEN Say([d4 EXCEPT !.reports = {}], "TRUNCATED reports")
             ELSE d4

\* stage 1, from the i-th student on: create_user and Student.objects.create
\* in one transaction; an error is printed and raised again
RECURSIVE SeedStudentsFrom(_, _, _, _)
SeedStudentsFrom(db, opts, draws, i) ==
    IF i > opts.students THEN Say(db, "Created students.")
    ELSE LET username == draws.usernames[i]
             id == Cardinality(db.users) + 1
         IN  IF \E u \in db.users : u.username = username
             THEN Raise(Say(db, "FAILED creating a student"), "IntegrityError")
             ELSE SeedStudentsFrom(
                      [db EXCEPT
                          !.users = @ \cup
                              {[id |-> id, username |-> username,
                                email |-> username \o "@example.org",
                                password |-> make_password("Test12345")]},
                          !.students = @ \cup
                              {[id |-> NextId(db.students), user_id |-> id,
                                full_name |-> "Seeded Student"]}],
                      opts, draws, i + 1)

SeedStudents(db, opts, draws) ==
    IF db.stopped THEN db
    ELSE IF opts.students > 0 THEN SeedStudentsFrom(db, opts, draws, 1)
    ELSE Say(db, "Skipping students (students=0).")

\* stage 2, from the i-th opportunity on: a drawn company and title that are
\* stored are passed over; an error of the create is printed and raised again
RECURSIVE SeedOppsFrom(_, _, _, _)
SeedOppsFrom(db, opts, draws, i) ==
    IF i > opts.opps THEN Say(db, "Created opportunities.")
    ELSE LET d == draws.opps[i]
         IN  IF ByCompanyAndTitle(db.opportunities, Some(d.company), d.title) # {}
             THEN SeedOppsFrom(db, opts, draws, i + 1)
             ELSE IF d.fails
             THEN Raise(Say(db, "FAILED creating an opportunity"), "DatabaseError")
             ELSE SeedOppsFrom(
                      [db EXCEPT
                          !.opportunities = @ \cup
                              {OppRow(db.oppSeq + 1, d.title, Some(d.company),
                                      Some(d.location), Some(ToDate(d.deadline)),
                                      d.status, None,
                                      CategoryId(db.categories, d.category),
                                      None, None, db.now)},
                          !.oppSeq = @ + 1],
                      opts, draws, i + 1)

SeedOpps(db, opts, draws) ==
    IF db.stopped THEN db
    ELSE IF opts.opps > 0
    THEN SeedOppsFrom([db EXCEPT !.categories = ensure_categories(@)],
                      opts, draws, 1)
    ELSE Say(db, "Skipping opportunities (opps=0).")

\* random.choice(ids): the draw says which of the stored ids is taken
Pick(rows, which) ==
    IF which = "first"
    THEN (CHOOSE r \in rows : \A q \in rows : r.id <= q.id).id
    ELSE (CHOOSE r \in rows : \A q \in rows : r.id >= q.id).id

\* the words that end a loop of attempts
Summary(db, created, target, kind) ==
    IF created < target
    THEN Say(db, "Created fewer " \o kind \o " than asked (stopped after the attempts)")
    ELSE Say(db, "Created " \o kind \o ".")

\* stage 3, the loop of attempts from the i-th on: an admin submission when
\* one is drawn and an admin is stored, a student submission otherwise, which
\* is passed over when the student has one for the opportunity; an error of
\* the create is printed and the loop goes on
RECURSIVE SeedSubsFrom(_, _, _, _, _)
SeedSubsFrom(db, opts, draws, created, i) ==
    IF ~(created < opts.subs /\ i <= Len(draws.subs))
    THEN Summary(db, created, opts.subs, "submissions")
    ELSE LET d == draws.subs[i]
             by_admin == d.by = "admin" /\ db.admins # {}
             student == IF by_admin THEN None ELSE Some(Pick(db.students, d.pick))
             admin == IF by_admin THEN Some(Pick(db.admins, d.pick)) ELSE None
             oid == Pick(db.opportunities, d.pick)
             given == IF by_admin THEN Some("admin") ELSE Some("student")
         IN  IF /\ ~by_admin
                /\ \E s \in db.submissions :
                       /\ s.submitted_by_student_id = student
                       /\ s.opportunity_id = oid
             THEN SeedSubsFrom(db, opts, draws, created, i + 1)
             ELSE IF d.fails
             THEN SeedSubsFrom(Say(db, "Skipped one submission due to error"),
                               opts, draws, created, i + 1)
             ELSE SeedSubsFrom(
                      [db EXCEPT !.submissions = @ \cup
                          {[id |-> NextId(db.submissions), opportunity_id |-> oid,
                            submitted_by_type |-> SubmittedByType(student, admin, given),
                            submitted_by_student_id |-> student,
                            submitted_by_admin_id |-> admin,
                            status |-> d.status]}],
                      opts, draws, created + 1, i + 1)

\* a stage that needs students and opportunities ends the run without them
Needs(db) ==
    IF db.students = {} THEN Return(Say(db, "No students found."))
    ELSE IF db.opportunities = {} THEN Return(Say(db, "No opportunities found."))
    ELSE db

SeedSubs(db, opts, draws) ==
    IF db.stopped THEN db
    ELSE IF opts.subs > 0
    THEN IF Needs(db).stopped THEN Needs(db)
         ELSE SeedSubsFrom(db, opts, draws, 0, 1)
    ELSE Say(db, "Skipping submissions (subs=0).")

\* stages 4 and 5, the loops of attempts: a pair that has a row is passed
\* over; an error of the create is printed and the loop goes on
RECURSIVE SeedRatingsFrom(_, _, _, _, _)
SeedRatingsFrom(db, opts, draws, created, i) ==
    IF ~(created < opts.ratings /\ i <= Len(draws.ratings))
    THEN Summary(db, created, opts.ratings, "ratings")
    ELSE LET d == draws.ratings[i]
             sid == Pick(db.students, d.pick)
             oid == Pick(db.opportunities, d.pick)
         IN  IF ~UniquePair(db.ratings, sid, oid)
             THEN SeedRatingsFrom(db, opts, draws, created, i + 1)
             ELSE IF d.fails
             THEN SeedRatingsFrom(Say(db, "Skipped one rating due to error"),
                                  opts, draws, created, i + 1)
             ELSE SeedRatingsFrom(
                      [db EXCEPT !.ratings = @ \cup
                          {[id |-> NextId(db.ratings), student_id |-> sid,
                            opportunity_id |-> oid,
                            overall |-> 25 * (d.learning_value + d.work_env
                                              + d.mentorship + d.outcome)]}],
                      opts, draws, created + 1, i + 1)

SeedRatings(db, opts, draws) ==
    IF db.stopped THEN db
    ELSE IF opts.ratings > 0
    THEN IF Needs(db).stopped THEN Needs(db)
         ELSE SeedRatingsFrom(db, opts, draws, 0, 1)
    ELSE Say(db, "Skipping ratings (ratings=0).")

RECURSIVE SeedReportsFrom(_, _, _, _, _)
SeedReportsFrom(db, opts, draws, created, i) ==
    IF ~(created < opts.reports /\ i <= Len(draws.reports))
    THEN Summary(db, created, opts.reports, "reports")
    ELSE LET d == draws.reports[i]
             sid == Pick(db.students, d.pick)
             oid == Pick(db.opportunities, d.pick)
         IN  IF ~UniquePair(db.reports, sid, oid)
             THEN SeedReportsFrom(db, opts, draws, created, i + 1)
             ELSE IF d.fails
             THEN SeedReportsFrom(Say(db, "Skipped one report due to error"),
                                  opts, draws, created, i + 1)
             ELSE SeedReportsFrom(
                      [db EXCEPT !.reports = @ \cup
                          {[id |-> NextId(db.reports), student_id |-> sid,
                            opportunity_id |-> oid,
                            report_type |-> d.report_type,
                            status |-> d.status]}],
                      opts, draws, created + 1, i + 1)

SeedReports(db, opts, draws) ==
    IF db.stopped THEN db
    ELSE IF opts.reports > 0
    THEN IF Needs(db).stopped THEN Needs(db)
         ELSE SeedReportsFrom(db, opts, draws, 0, 1)
    ELSE Say(db, "Skipping reports (reports=0).")

\* the counts printed at the end of handle()
SeedSanity(db) == IF db.stopped THEN db ELSE Say(db, "SQL COUNT Students")

\* handle(): the guard and the reset, the five stages, the counts
handle(start, opts, draws) ==
    SeedSanity(
        SeedReports(
            SeedRatings(
                SeedSubs(
                    SeedOpps(
                        SeedStudents(SeedReset(start, opts), opts, draws),
                        opts, draws),
                    opts, draws),
                opts, draws),
            opts, draws))

\* manage.py seed_all <opts>
SeedAll(opts, draws) ==
    /\ Len(draws.usernames) = (IF opts.students > 0 THEN opts.students ELSE 0)
    /\ Len(draws.opps) = (IF opts.opps > 0 THEN opts.opps ELSE 0)
    /\ \E db \in {handle([users |-> users, students |-> students,
                          admins |-> admins, categories |-> categories,
                          opportunities |-> opportunities, oppSeq |-> oppSeq,
                          now |-> now, versions |-> versions,
                          bookmarks |-> bookmarks, ratings |-> ratings,
                          reports |-> reports, submissions |-> submissions,
                          console |-> <<>>, error |-> None, stopped |-> FALSE],
                         opts, draws)} :
          /\ users' = db.users
          /\ students' = db.students
          /\ categories' = db.categories
          /\ opportunities' = db.opportunities
          /\ oppSeq' = db.oppSeq
          /\ versions' = db.versions
          /\ bookmarks' = db.bookmarks
          /\ ratings' = db.ratings
          /\ reports' = db.reports
          /\ submissions' = db.submissions
          /\ outcome' = Some([op |-> "seed_all", opts |-> opts,
                              error |-> db.error, console |-> db.console])
    /\ UNCHANGED <<admins, workers, now, request, response>>

(***************************************************************************)
(* Specifications.                                                         *)
(***************************************************************************)
Init ==
    /\ categories = {}
    /\ opportunities = {}
    /\ oppSeq = 0
    /\ now = 0
    /\ request = None
    /\ response = None
    /\ users = {}
    /\ students = {}
    /\ admins = {}
    /\ submissions = {}
    /\ workers = [w \in Workers |-> Idle]
    /\ bookmarks = {}
    /\ ratings = {}
    /\ reports = {}
    /\ versions = {}
    /\ outcome = None

QueryDict(category, region, city, page) ==
    [k \in {"category", "region", "city", "page"} |->
        CASE k = "category" -> category
          [] k = "region" -> region
          [] k = "city" -> city
          [] k = "page" -> page]

\* Inputs of the filter specification
Locations ==
    {None, Some(""), Some("Riyadh"), Some("Riyadh,Riyadh"), Some("Riyadh, Riyadh"),
     Some("Makkah,Jeddah"), Some("Eastern Province,Al Khobar"),
     Some("riyadh,riyadh"), Some("Riyadh ,Riyadh")}

CategoryChoices == {None, Some(1), Some(2)}

CategoryParams == {<<>>, <<"1">>, <<"2", "1", "1">>, <<"9">>, <<"x">>}

RegionParams == {<<>>, <<"Riyadh">>, <<" Makkah ">>, <<"Atlantis">>}
CityParams == {<<>>, <<"Riyadh">>, <<"Jeddah">>}
PageParams == {<<>>}

FilterRequests ==
    {QueryDict(c, r, y, p) :
        c \in CategoryParams, r \in RegionParams, y \in CityParams, p \in PageParams}

NoParams == QueryDict(<<>>, <<>>, <<>>, <<>>)

Next ==
    \/ /\ oppSeq < MaxOpps
       /\ \E c \in CategoryChoices, l \in Locations : CreateOpportunity(c, l, now + 1)
    \/ \E GET \in FilterRequests : Opportunities(GET)
    \/ OpportunitiesAnonymous(NoParams)
    \/ Respond

Spec == Init /\ [][Next]_vars

\* Inputs of the pagination specification: many rows of one kind, created at
\* the same instant as the row before or later, and every kind of page value
PagePageParams ==
    {<<>>, <<"0">>, <<"-1">>, <<"1">>, <<"2">>, <<" 3 ">>, <<"4">>, <<"abc">>}

PageRequests ==
    {QueryDict(<<>>, <<>>, <<>>, p) : p \in PagePageParams}
    \cup {QueryDict(<<"2">>, <<>>, <<>>, p) : p \in {<<>>, <<"2">>}}

NextPage ==
    \/ /\ oppSeq < MaxPageOpps
       /\ \E t \in {now, now + 1} : CreateOpportunity(None, Some("Riyadh,Riyadh"), t)
    \/ \E GET \in PageRequests : Opportunities(GET)
    \/ OpportunitiesAnonymous(NoParams)
    \/ Respond

SpecPage == Init /\ [][NextPage]_vars

\* Inputs of the page-index specification: rows created one after the other
\* until the list has several pages, and every page of it requested
RangePageParams ==
    {<<>>} \cup {<<IntToStr(p)>> : p \in 1..NumPages(MaxRangeOpps)}

RangeRequests == {QueryDict(<<>>, <<>>, <<>>, p) : p \in RangePageParams}

NextRange ==
    \/ /\ oppSeq < MaxRangeOpps
       /\ CreateOpportunity(None, Some("Riyadh,Riyadh"), now + 1)
    \/ \E GET \in RangeRequests : Opportunities(GET)
    \/ OpportunitiesAnonymous(NoParams)
    \/ Respond

SpecRange == Init /\ [][NextRange]_vars

\* Inputs of the filter-URL specification: the default categories and every
\* combination of category, region, city and page values
UrlCategoryParams ==
    {<<>>, <<"1">>, <<"2", "1", "1">>, <<"9">>, <<"x", "2">>, <<"-3", "1">>}

UrlRegionParams == {<<>>, <<"Riyadh">>, <<" Makkah ">>, <<"Atlantis">>, <<"">>}
UrlCityParams == {<<>>, <<"Jeddah">>}
UrlPageParams == {<<>>, <<"2">>}

UrlRequests ==
    {QueryDict(c, r, y, p) :
        c \in UrlCategoryParams, r \in UrlRegionParams,
        y \in UrlCityParams, p \in UrlPageParams}

NextUrl ==
    \/ /\ oppSeq < MaxUrlOpps
       /\ CreateOpportunity(None, Some("Makkah,Jeddah"), now + 1)
    \/ \E GET \in UrlRequests : Opportunities(GET)
    \/ OpportunitiesAnonymous(NoParams)
    \/ Respond

SpecUrl == Init /\ [][NextUrl]_vars

\* Inputs of the register specification
SignupUsernames == {"bob", " bob ", "bob@home"}
SignupEmails == {"Bob@Mail.com", "al@mail.com", "al"}
SignupPasswords ==
    {<<"pw1", "pw1">>, <<"pw1 ", "pw1">>, <<"pw1", "pw2">>, <<"123", "123">>}

SignupPosts ==
    {[form_type |-> "signup", full_name |-> "Bob", username |-> u, email |-> e,
      password1 |-> p[1], password2 |-> p[2]] :
        u \in SignupUsernames, e \in SignupEmails, p \in SignupPasswords}

LoginIdentifiers == {"bob", "bob@home", "BOB@mail.com", "zed"}
LoginPasswords == {"pw1", "pw2"}

LoginPosts ==
    {[form_type |-> "login", identifier |-> i, password |-> p] :
        i \in LoginIdentifiers, p \in LoginPasswords}

NextRegister ==
    \/ /\ Cardinality(users) < MaxUsers
       /\ \E w \in Workers, POST \in SignupPosts : SignupPost(w, POST)
    \/ \E w \in Workers : CreateUser(w)
    \/ \E w \in Workers : CreateStudent(w)
    \/ \E w \in Workers : CreateStudentFails(w)
    \/ \E w \in Workers : LoginNewUser(w)
    \/ \E w \in Workers, POST \in LoginPosts : LoginPost(w, POST)
    \/ \E w \in Workers : Finish(w)

SpecRegister == Init /\ [][NextRegister]_vars

\* Inputs of the submission specification: one opportunity, one student who
\* signed up, one admin, and submissions with every choice of submitters
StudentSignup ==
    [form_type |-> "signup", full_name |-> "Bob", username |-> "bob",
     email |-> "bob@mail.com", password1 |-> "pw1", password2 |-> "pw1"]

AdminEmails == {"root@mail.com"}

StudentChoices == {None} \cup {Some(st.id) : st \in students}
AdminChoices == {None} \cup {Some(a.id) : a \in admins}
TypeChoices == {None, Some("student"), Some("admin")}

NextSubmission ==
    \/ /\ oppSeq < MaxSubOpps
       /\ CreateOpportunity(None, Some("Riyadh,Riyadh"), now + 1)
    \/ users = {} /\ SignupPost("w1", StudentSignup)
    \/ CreateUser("w1")
    \/ CreateStudent("w1")
    \/ LoginNewUser("w1")
    \/ Finish("w1")
    \/ \E e \in AdminEmails : CreateAdmin(e)
    \/ /\ Cardinality(submissions) < MaxSubmissions
       /\ \E o \in opportunities, st \in StudentChoices, a \in AdminChoices,
             t \in TypeChoices :
             SaveSubmission(o.id, st, a, t)
    \/ \E st \in students : DeleteStudent(st.id)
    \/ \E a \in admins : DeleteAdmin(a.id)

SpecSubmission == Init /\ [][NextSubmission]_vars

\* Inputs of the feedback specification: the student who signed up bookmarks,
\* rates and reports the stored opportunities, any pair any number of times
OverallChoices == {100, 500}   \* Rating.overall in hundredths (DecimalField(4, 2))
ReportTypes == {"scam", "duplicate"}

NextFeedback ==
    \/ /\ oppSeq < MaxFeedbackOpps
       /\ CreateOpportunity(None, Some("Riyadh,Riyadh"), now + 1)
    \/ users = {} /\ SignupPost("w1", StudentSignup)
    \/ CreateUser("w1")
    \/ CreateStudent("w1")
    \/ LoginNewUser("w1")
    \/ Finish("w1")
    \/ \E st \in students, o \in opportunities : CreateBookmark(st.id, o.id)
    \/ \E st \in students, o \in opportunities, v \in OverallChoices :
          CreateRating(st.id, o.id, v)
    \/ /\ Cardinality(reports) < MaxReports
       /\ \E st \in students, o \in opportunities, t \in ReportTypes :
             CreateReport(st.id, o.id, t)
    \/ \E st \in students : DeleteStudent(st.id)

SpecFeedback == Init /\ [][NextFeedback]_vars

\* Inputs of the import specification: files of one or two items; an item
\* with every key, one with few keys and blanks around its title, one without
\* a title, and one naming the first item's company and title under another
\* link
Item(company, title, location, category, major, status, deadline, source_link) ==
    [company |-> company, title |-> title, location |-> location,
     category |-> category, major |-> major, status |-> status,
     deadline |-> deadline, source_link |-> source_link]

ItemAon ==
    Item(Some("AON"), Some("IT Co-op Trainee"), Some("Riyadh, Riyadh"), None,
         Some("IT"), None, Some("2026-12-31"), Some("https://aon.example/coop"))
ItemCyber ==
    Item(None, Some(" Cyber Co-op "), Some("Makkah"), Some("Cybersecurity"),
         None, Some("CLOSED"), None, None)
ItemUntitled ==
    Item(Some("GOSI"), None, None, Some("Finance"), None, None, None, None)
ItemAonAgain ==
    Item(Some("AON"), Some("IT Co-op Trainee"), Some("Riyadh,Riyadh"),
         Some("Arts & Media"), Some("IT"), Some("open"), None,
         Some("https://aon.example/other"))

Payloads ==
    {<<ItemAon>>, <<ItemCyber>>, <<ItemAon, ItemCyber>>,
     <<ItemCyber, ItemUntitled>>, <<ItemAon, ItemAonAgain>>}

NextImport ==
    \E payload \in Payloads, update_existing \in BOOLEAN :
        /\ now + Len(payload) <= MaxImportClock
        /\ ImportCurated(payload, update_existing)

SpecImport == Init /\ [][NextImport]_vars

\* Inputs of the seed specification: command lines of seed_all that seed
\* students, that seed opportunities (with --opps below, at and above 0),
\* that seed submissions, ratings or reports, that only reset, and that seed
\* everything, with and without the reset options; and an admin
Opts(reset, reset_students, reset_opps, reset_others, n_students, n_opps, n_subs, n_ratings, n_reports) ==
    [reset |-> reset, reset_students |-> reset_students,
     reset_opps |-> reset_opps, reset_subs |-> reset_others,
     reset_ratings |-> reset_others, reset_reports |-> reset_others,
     students |-> n_students, opps |-> n_opps, subs |-> n_subs,
     ratings |-> n_ratings, reports |-> n_reports]

Draws(usernames, d_opps, d_subs, d_ratings, d_reports) ==
    [usernames |-> usernames, opps |-> d_opps, subs |-> d_subs,
     ratings |-> d_ratings, reports |-> d_reports]

SeedUsernames == {"sara1000", "omar2000"}

OppDraw(company, title, location, category, status, fails) ==
    [company |-> company, title |-> title, location |-> location,
     deadline |-> "2026-12-01", category |-> category, status |-> status,
     fails |-> fails]

SubDraw(by, fails) ==
    [by |-> by, pick |-> "first", status |-> "pending", fails |-> fails]

SubDraws ==
    {SubDraw("student", FALSE), SubDraw("admin", FALSE), SubDraw("student", TRUE)}

SeedSubDraws == {d \in SubDraws : d.by = "student"}

RatingDraws ==
    {[pick |-> "first", learning_value |-> 5, work_env |-> 4, mentorship |-> 3,
      outcome |-> 1, fails |-> fails] : fails \in BOOLEAN}

ReportDraws ==
    {[pick |-> "first", report_type |-> "scam", status |-> "pending",
      fails |-> fails] : fails \in BOOLEAN}

Attempts(draws) == [1..SeedAttempts -> draws]

StudentRuns ==
    {<<Opts(reset, FALSE, FALSE, FALSE, n, 0, 0, 0, 0),
       Draws(usernames, <<>>, <<>>, <<>>, <<>>)>> :
        reset \in BOOLEAN, n \in {2},
        usernames \in [1..2 -> SeedUsernames]}
    \cup
    {<<Opts(reset, FALSE, FALSE, FALSE, 1, 0, 0, 0, 0),
       Draws(<<username>>, <<>>, <<>>, <<>>, <<>>)>> :
        reset \in BOOLEAN, username \in SeedUsernames}

OppCounts == {-1, 0, 1, 2}

DrawAon == OppDraw("AON", "IT Co-op Trainee", "Riyadh,Riyadh", "Other", "open", FALSE)
DrawGosi ==
    OppDraw("GOSI", "Cybersecurity Co-op", "Makkah,Jeddah", "Cybersecurity",
            "closed", FALSE)
DrawFailing ==
    OppDraw("TAWAL", "HR Co-op", "Riyadh,Al Kharj", "Arts & Media", "open", TRUE)

OppDraws ==
    {<<>>, <<DrawAon>>, <<DrawGosi>>, <<DrawFailing>>, <<DrawAon, DrawGosi>>,
     <<DrawAon, DrawFailing>>, <<DrawFailing, DrawAon>>}

OppRuns ==
    UNION {{<<Opts(reset, FALSE, reset_opps, FALSE, 0, n, 0, 0, 0),
              Draws(<<>>, drawn, <<>>, <<>>, <<>>)>> :
               reset \in BOOLEAN, reset_opps \in BOOLEAN,
               drawn \in {d \in OppDraws : Len(d) = (IF n > 0 THEN n ELSE 0)}} :
           n \in OppCounts}

FeedbackRuns ==
    {<<Opts(FALSE, FALSE, FALSE, FALSE, 0, 0, 1, 0, 0),
       Draws(<<>>, <<>>, subs, <<>>, <<>>)>> : subs \in Attempts(SubDraws)}
    \cup
    {<<Opts(FALSE, FALSE, FALSE, FALSE, 0, 0, 0, 1, 0),
       Draws(<<>>, <<>>, <<>>, rates, <<>>)>> : rates \in Attempts(RatingDraws)}
    \cup
    {<<Opts(FALSE, FALSE, FALSE, FALSE, 0, 0, 0, 0, 1),
       Draws(<<>>, <<>>, <<>>, <<>>, reps)>> : reps \in Attempts(ReportDraws)}

\* --reset alone, and with the options for students and for the other tables
ResetRuns ==
    {<<Opts(TRUE, reset_students, FALSE, reset_others, 0, 0, 0, 0, 0),
       Draws(<<>>, <<>>, <<>>, <<>>, <<>>)>> :
        reset_students \in BOOLEAN, reset_others \in BOOLEAN}

\* every stage in one run; the first attempt of each loop meets an error
FirstFails(draws) ==
    [i \in 1..SeedAttempts |->
        CHOOSE d \in draws : d.pick = "first" /\ d.fails = (i = 1)]

FullRuns ==
    {<<Opts(reset, FALSE, reset, FALSE, 1, 1, 1, 1, 1),
       Draws(<<username>>, <<opp>>, FirstFails(SeedSubDraws),
             FirstFails(RatingDraws), FirstFails(ReportDraws))>> :
        reset \in BOOLEAN, username \in SeedUsernames,
        opp \in {DrawAon, DrawFailing}}

SeedRuns == StudentRuns \cup OppRuns \cup FeedbackRuns \cup ResetRuns \cup FullRuns

NextSeed ==
    \/ \E e \in AdminEmails : CreateAdmin(e)
    \/ \E run \in SeedRuns :
          /\ run[1].subs > 0 => Cardinality(submissions) < MaxSeedSubmissions
          /\ SeedAll(run[1], run[2])

SpecSeed == Init /\ [][NextSeed]_vars

\* Inputs of the commands specification: lookups of the default category and
\* runs of insert_opps, of the import and of seed_all, in any order
CommandPayloads == {<<ItemAon>>, <<ItemCyber>>}

NextCommands ==
    \/ DefaultCategoryLookup
    \/ InsertOpps
    \/ \E payload \in CommandPayloads, update_existing \in BOOLEAN :
          /\ now + Len(payload) <= MaxCommandClock
          /\ ImportCurated(payload, update_existing)
    \/ \E run \in FullRuns :
          /\ run[1].subs > 0 => Cardinality(submissions) < MaxSeedSubmissions
          /\ SeedAll(run[1], run[2])

SpecCommands == Init /\ [][NextCommands]_vars

(***************************************************************************)
(* Properties.  They speak of the exchange being served: the request, the  *)
(* context rendered for it and the tables it was computed on.              *)
(***************************************************************************)
Served == ~IsNone(response) /\ Val(response).kind = "page"
Req == Val(request)
Ctx == Val(response)

SeqToSet(q) == {q[i] : i \in 1..Len(q)}

\* the opportunities the paginator was given, as a set
Listed == SeqToSet(Ctx.page_obj.paginator.object_list)

\* the category ids the view reports as selected
SelectedIds == SeqToSet(Ctx.selected_category_ids)

\* the rows that pass the active category filter
PassCategory ==
    IF SelectedIds = {} THEN opportunities
    ELSE {o \in opportunities : o.category_id \in SelectedIds}

\* the trimmed region and city the request gives (None when absent or blank)
RegionParam == StrippedParam(Req, "region")
CityParam == StrippedParam(Req, "city")

\* loc is region, a comma, then anything
InRegion(loc, r) == StartsWith(loc, r \o ",")

\* loc reads "region,city" once split at its first comma and trimmed
ParsesTo(loc, r, c) ==
    /\ ~IsNone(loc)
    /\ \E i \in 1..Len(Val(loc)) :
          /\ Char(Val(loc), i) = ","
          /\ \A k \in 1..(i - 1) : Char(Val(loc), k) # ","
          /\ Strip(SubSeq(Val(loc), 1, i - 1)) = r
          /\ Strip(SubSeq(Val(loc), i + 1, Len(Val(loc)))) = c

\* every URL the view puts in the context
OutputQueries ==
    {Ctx.categories_ui[c].toggle_url.query : c \in DOMAIN Ctx.categories_ui}
    \cup {Ctx.clear_majors_url.query, Ctx.clear_location_url.query,
          Ctx.clear_all_url.query, Ctx.extra_qs}

HasKey(query, key) == \E i \in 1..Len(query) : query[i][1] = key

\* C1: with no location filter active, the filtered list is every stored
\* opportunity when no category is selected, and otherwise exactly the
\* stored opportunities whose category id is selected; no row is repeated.
C1_CategoryFilterExact ==
    (Served /\ IsNone(Ctx.selected_region)) =>
        /\ Len(Ctx.page_obj.paginator.object_list) = Cardinality(Listed)
        /\ IF SelectedIds = {}
           THEN Listed = opportunities
           ELSE Listed = {o \in opportunities : o.category_id \in SelectedIds}

C1_Witness ==
    /\ Served
    /\ IsNone(Ctx.selected_region)
    /\ SelectedIds # {}
    /\ Listed # {}
    /\ Listed # opportunities

\* C2: the count shown for each category is the number of stored
\* opportunities of that category that match the active location filter.
C2_CategoryCountsReflectLocation ==
    Served =>
        \A c \in DOMAIN Ctx.categories_ui :
            Ctx.categories_ui[c].count =
                Cardinality(LocationFilter({o \in opportunities : o.category_id = c},
                                           Ctx.selected_region, Ctx.selected_city))

\* C3: the count shown for a catalog (region, city) is the number of
\* opportunities that pass the category filter and whose location parses to
\* that region and city, whatever region or city is selected; other
\* locations add to no count.
C3_LocationCounts ==
    Served =>
        \A r \in Regions : \A c \in CitiesOf(r) :
            Ctx.location_menu[r][c] =
                Cardinality({o \in PassCategory : ParsesTo(o.location, r, c)})

C3_Witness ==
    /\ Served
    /\ ~IsNone(Ctx.selected_region)
    /\ SelectedIds # {}
    /\ \E r \in Regions : \E c \in CitiesOf(r) :
          /\ r # Val(Ctx.selected_region)
          /\ Ctx.location_menu[r][c] > 0
    /\ \E o \in PassCategory :
          \A r \in Regions : \A c \in CitiesOf(r) : ~ParsesTo(o.location, r, c)

\* C4: an unknown region clears region and city and the list is not filtered
\* by location; a city outside a known region clears the city only and the
\* list is filtered by the region alone; a page is rendered in both cases.
C4_InvalidSelectionDropped ==
    ~IsNone(response) /\ Val(response).kind # "redirect" =>
        /\ Served
        /\ (~IsNone(RegionParam) /\ Val(RegionParam) \notin Regions) =>
              /\ IsNone(Ctx.selected_region)
              /\ IsNone(Ctx.selected_city)
              /\ Listed = PassCategory
        /\ (/\ ~IsNone(RegionParam)
            /\ Val(RegionParam) \in Regions
            /\ ~IsNone(CityParam)
            /\ Val(CityParam) \notin CitiesOf(Val(RegionParam))) =>
              /\ Ctx.selected_region = RegionParam
              /\ IsNone(Ctx.selected_city)
              /\ Listed = {o \in PassCategory : InRegion(o.location, Val(RegionParam))}

C4_Witness ==
    /\ Served
    /\ ~IsNone(RegionParam)
    /\ Val(RegionParam) \in Regions
    /\ ~IsNone(CityParam)
    /\ Val(CityParam) \notin CitiesOf(Val(RegionParam))
    /\ Listed # {}
    /\ Listed # PassCategory

\* C5: when the request carries a region that is not in the catalog, no URL
\* the view outputs carries a region parameter.
C5_UnknownRegionDroppedFromUrls ==
    (Served /\ ~IsNone(RegionParam) /\ Val(RegionParam) \notin Regions) =>
        \A q \in OutputQueries : ~HasKey(q, "region")

\* the category values of the request that are integers naming a category
RecognizedCategoryValues ==
    LET raw == Req["category"]
        ok(x) == /\ ~IsNone(ParseInt(x))
                 /\ \E c \in categories : c.id = Val(ParseInt(x))
    IN  SelectSeq(raw, ok)

\* C6: a category value that is no integer, or an integer that is the id of
\* no category, leaves the list as it is with that value absent.
C6_UnrecognizedCategoryIgnored ==
    Served =>
        Ctx.page_obj.paginator.object_list =
            OpportunitiesContext(SetList(Req, "category", RecognizedCategoryValues),
                                 categories, opportunities
                                ).page_obj.paginator.object_list

\* the rows stored as "region,city" or "region, city" that pass the category
\* filter
StoredAs(r, c) ==
    {o \in PassCategory :
        o.location \in {Some(r \o "," \o c), Some(r \o ", " \o c)}}

\* C7: for a catalog (region, city), the rows stored as "Region,City" and as
\* "Region, City" are returned alike by the region+city filter and by the
\* region filter, and are counted under the same (region, city).
C7_SpaceAfterCommaTolerated ==
    Served =>
        \A r \in Regions : \A c \in CitiesOf(r) :
            /\ (Ctx.selected_region = Some(r) /\ Ctx.selected_city = Some(c)) =>
                  StoredAs(r, c) \subseteq Listed
            /\ (Ctx.selected_region = Some(r) /\ IsNone(Ctx.selected_city)) =>
                  StoredAs(r, c) \subseteq Listed
            /\ Ctx.location_menu[r][c] >= Cardinality(StoredAs(r, c))

C7_Witness ==
    /\ Served
    /\ \E r \in Regions : \E c \in CitiesOf(r) :
          /\ Ctx.selected_region = Some(r)
          /\ Ctx.selected_city = Some(c)
          /\ \E o1, o2 \in Listed :
                /\ o1.location = Some(r \o "," \o c)
                /\ o2.location = Some(r \o ", " \o c)
          /\ Ctx.location_menu[r][c] = 2

\* the integer the page parameter of the request gives, None when the
\* parameter is missing or no integer
RequestedPage ==
    LET g == Get(Req, "page")
    IN  IF IsNone(g) THEN None ELSE ParseInt(Val(g))

\* what the view shows for the same request with page = p on the same tables
ShownForPage(p) ==
    OpportunitiesContext(SetList(Req, "page", <<IntToStr(p)>>),
                         categories, opportunities).opportunities

RECURSIVE PagesFrom(_, _)
PagesFrom(p, last) ==
    IF p > last THEN <<>> ELSE ShownForPage(p) \o PagesFrom(p + 1, last)

\* C8: the filtered list is in creation-time order, newest first, rows of the
\* same instant by descending id; on unchanged tables and filters, pages 1
\* to the last one after the other are that list: every matching row once.
C8_StablePagination ==
    Served =>
        LET full == Ctx.page_obj.paginator.object_list
        IN  /\ \A i, j \in 1..Len(full) :
                  i < j =>
                      \/ full[i].created_at > full[j].created_at
                      \/ /\ full[i].created_at = full[j].created_at
                         /\ full[i].id > full[j].id
            /\ IsNone(Ctx.selected_region) => Listed = PassCategory
            /\ PagesFrom(1, Ctx.page_obj.paginator.num_pages) = full

C8_Witness ==
    /\ Served
    /\ Ctx.page_obj.paginator.num_pages = 3
    /\ \E o1, o2 \in Listed : o1.id # o2.id /\ o1.created_at = o2.created_at
    /\ \E o1, o2 \in Listed : o1.created_at # o2.created_at

\* C9: every page before the last holds PerPage rows, the last page holds
\* the remainder (PerPage when the count is a positive multiple of PerPage),
\* no match gives one empty page, and a page number above the last shows the
\* last page.
C9_PageSizes ==
    Served =>
        LET N == Cardinality(Listed)
            last == Ctx.page_obj.paginator.num_pages
            number == Ctx.page_obj.number
            shown == Len(Ctx.opportunities)
        IN  /\ number \in 1..last
            /\ N = 0 => (last = 1 /\ shown = 0)
            /\ number < last => shown = PerPage
            /\ (number = last /\ N > 0) =>
                  /\ shown = (IF N % PerPage = 0 THEN PerPage ELSE N % PerPage)
                  /\ (last - 1) * PerPage + shown = N
            /\ (~IsNone(RequestedPage) /\ Val(RequestedPage) > last) =>
                  number = last

C9_Witness ==
    /\ Served
    /\ Cardinality(Listed) = 2 * PerPage + 1
    /\ RequestedPage = Some(4)
    /\ Ctx.page_obj.number = 3
    /\ Len(Ctx.opportunities) = 1

\* C10: the page shown is the valid page nearest to the requested one: page
\* 1 for an integer below 1, the last page for an integer above it, page 1
\* for a missing or non-numeric value.
C10_PageClampedToNearest ==
    Served =>
        LET last == Ctx.page_obj.paginator.num_pages
            number == Ctx.page_obj.number
        IN  /\ number \in 1..last
            /\ IsNone(RequestedPage) => number = 1
            /\ (~IsNone(RequestedPage) /\ Val(RequestedPage) < 1) => number = 1
            /\ (~IsNone(RequestedPage) /\ Val(RequestedPage) > last) => number = last
            /\ (~IsNone(RequestedPage) /\ Val(RequestedPage) \in 1..last) =>
                  number = Val(RequestedPage)

\* the page numbers listed in page_range, in list order
NumericEntries == SelectSeq(Ctx.page_range, LAMBDA e : ~IsNone(e))

\* C11: page_range lists page 1 once and the last page once (one entry when
\* there is one page), its page numbers increase strictly, it neither starts
\* nor ends with an ellipsis, no two ellipses are adjacent, an ellipsis
\* stands between two numbers that differ by more than 1, and two numbers
\* with no ellipsis between them differ by 1.
C11_PageRangeShape ==
    Served =>
        LET pr == Ctx.page_range
            last == Ctx.page_obj.paginator.num_pages
        IN  /\ Cardinality({i \in 1..Len(pr) : pr[i] = Some(1)}) = 1
            /\ Cardinality({i \in 1..Len(pr) : pr[i] = Some(last)}) = 1
            /\ last = 1 => Len(pr) = 1
            /\ ~IsNone(pr[1])
            /\ ~IsNone(pr[Len(pr)])
            /\ \A i \in 1..(Len(pr) - 1) :
                  /\ ~(IsNone(pr[i]) /\ IsNone(pr[i + 1]))
                  /\ (~IsNone(pr[i]) /\ ~IsNone(pr[i + 1])) =>
                        Val(pr[i + 1]) = Val(pr[i]) + 1
            /\ \A i \in 2..(Len(pr) - 1) :
                  IsNone(pr[i]) => Val(pr[i + 1]) - Val(pr[i - 1]) > 1
            /\ \A i, j \in 1..Len(NumericEntries) :
                  i < j => Val(NumericEntries[i]) < Val(NumericEntries[j])

C11_Witness ==
    /\ Served
    /\ Ctx.page_obj.paginator.num_pages = 9
    /\ Ctx.page_obj.number = 5
    /\ Ctx.page_range = <<Some(1), None, Some(3), Some(4), Some(5), Some(6),
                          Some(7), None, Some(9)>>

\* C12: the page numbers listed in page_range are page 1, the last page and
\* the pages at most Window away from the current page, and no others; the
\* current page is listed.
C12_PageRangeNumbers ==
    Served =>
        LET last == Ctx.page_obj.paginator.num_pages
            c == Ctx.page_obj.number
        IN  /\ c \in 1..last
            /\ {Val(e) : e \in SeqToSet(NumericEntries)} =
                  {1, last} \cup {p \in 1..last : c - 2 <= p /\ p <= c + 2}
            /\ Some(c) \in SeqToSet(Ctx.page_range)

C12_Witness ==
    /\ Served
    /\ Ctx.page_obj.paginator.num_pages = 8
    /\ Ctx.page_obj.number = 5
    /\ Ctx.page_range = <<Some(1), None, Some(3), Some(4), Some(5), Some(6),
                          Some(7), Some(8)>>

\* the selected set with c toggled
Toggled(S, c) == IF c \in S THEN S \ {c} ELSE S \cup {c}

\* C13: from any request, following the toggle URL of a category and then,
\* on the page that request renders, the toggle URL of the same category
\* gives a request whose selected category set is the original one and whose
\* region and city are those of the original request.
C13_ToggleTwiceRestores ==
    Served =>
        \A c \in DOMAIN Ctx.categories_ui :
            LET once == ParseQs(Ctx.categories_ui[c].toggle_url.query)
                ctx1 == OpportunitiesContext(once, categories, opportunities)
                twice == ParseQs(ctx1.categories_ui[c].toggle_url.query)
                ctx2 == OpportunitiesContext(twice, categories, opportunities)
            IN  /\ SeqToSet(ctx1.selected_category_ids) = Toggled(SelectedIds, c)
                /\ ctx2.selected_category_ids = Ctx.selected_category_ids
                /\ twice["region"] = Req["region"]
                /\ twice["city"] = Req["city"]

C13_Witness ==
    /\ Served
    /\ Req["category"] = <<"2", "1", "1">>
    /\ Req["region"] = <<" Makkah ">>
    /\ Req["city"] = <<"Jeddah">>
    /\ 1 \in DOMAIN Ctx.categories_ui
    /\ ParseQs(Ctx.categories_ui[1].toggle_url.query)["category"] = <<"2">>

\* C14: no URL the view builds carries a page parameter; the toggle URL of
\* c carries the selected set with c toggled and the region and city of the
\* request; the clear-majors URL carries no category and the region and city
\* of the request; the clear-location URL carries no region, no city and the
\* category values of the request; the clear-all URL carries no parameter;
\* extra_qs carries every parameter of the request but page.
C14_UrlsChangeOwnFacetOnly ==
    Served =>
        LET majors == ParseQs(Ctx.clear_majors_url.query)
            location == ParseQs(Ctx.clear_location_url.query)
        IN  /\ \A q \in OutputQueries : ~HasKey(q, "page")
            /\ \A c \in DOMAIN Ctx.categories_ui :
                  LET toggle == ParseQs(Ctx.categories_ui[c].toggle_url.query)
                  IN  /\ ParsedCategoryIds(toggle["category"]) = Toggled(SelectedIds, c)
                      /\ toggle["region"] = Req["region"]
                      /\ toggle["city"] = Req["city"]
            /\ majors["category"] = <<>>
            /\ majors["region"] = Req["region"]
            /\ majors["city"] = Req["city"]
            /\ location["region"] = <<>>
            /\ location["city"] = <<>>
            /\ location["category"] = Req["category"]
            /\ Ctx.clear_all_url.query = <<>>
            /\ ParseQs(Ctx.extra_qs) = [Req EXCEPT !["page"] = <<>>]

C14_Witness ==
    /\ Served
    /\ Req["page"] = <<"2">>
    /\ Req["category"] = <<"x", "2">>
    /\ Req["region"] = <<"Atlantis">>
    /\ Req["city"] = <<"Jeddah">>
    /\ DOMAIN Ctx.categories_ui = {1, 2}
    /\ Ctx.clear_location_url.query = <<<<"category", "x">>, <<"category", "2">>>>

\* the request a worker is serving or has answered
IsSignup(w) ==
    workers[w].pc # "idle" /\ Val(workers[w].post).form_type = "signup"

IsLogin(w) ==
    workers[w].pc # "idle" /\ Val(workers[w].post).form_type = "login"

Answered(w) == workers[w].pc = "done"

HasUser(id) == \E u \in users : u.id = id
HasStudent(id) == \E st \in students : st.user_id = id

\* C15: once a signup request is answered, the user it created (if any) is
\* stored together with its Student profile: both rows or neither.
C15_SignupAtomic ==
    \A w \in Workers :
        (IsSignup(w) /\ Answered(w)) =>
            \/ IsNone(workers[w].user)
            \/ HasUser(Val(workers[w].user)) /\ HasStudent(Val(workers[w].user))

\* C16: a signup whose password1 and password2 are both given and differ is
\* answered with the form rendered again with the password-mismatch error;
\* it creates no user and no Student and logs nobody in.
C16_MismatchRejected ==
    \A w \in Workers :
        (/\ IsSignup(w)
         /\ Val(workers[w].post).password1 # ""
         /\ Val(workers[w].post).password2 # ""
         /\ Val(workers[w].post).password1 # Val(workers[w].post).password2) =>
            /\ Answered(w)
            /\ Val(workers[w].response).kind = "render"
            /\ <<"password2", "Passwords do not match.">>
                   \in Val(workers[w].response).errors
            /\ IsNone(workers[w].user)
            /\ IsNone(Val(workers[w].response).user)

\* C17: no two stored users share a username or an email, and no signup is
\* answered with the unhandled error of a duplicate.
C17_UniqueCredentials ==
    /\ \A u1, u2 \in users :
          u1.id # u2.id => (u1.username # u2.username /\ u1.email # u2.email)
    /\ \A w \in Workers :
          (IsSignup(w) /\ Answered(w)) =>
              Val(workers[w].response).exception # Some("IntegrityError")

\* str.upper()
RECURSIVE Upper(_)
Upper(s) ==
    IF Len(s) = 0 THEN ""
    ELSE LET c == Char(s, 1)
             up == {i \in 1..Len(LowerLetters) : Char(LowerLetters, i) = c}
         IN  (IF up = {} THEN c ELSE Char(UpperLetters, CHOOSE i \in up : TRUE))
             \o Upper(Tail(s))

\* the password a stored user signed up with
RawPassword(u) == u.password[2]

\* C18: for every stored user, the login form accepts the user's password
\* with the username, with the email and with the email in capitals, and
\* gives that user each time.
C18_LoginByUsernameOrEmail ==
    \A u \in users :
        \A identifier \in {u.username, u.email, Upper(u.email)} :
            LoginClean([form_type |-> "login", identifier |-> identifier,
                        password |-> RawPassword(u)], users)
                = [errors |-> {}, user |-> Some(u.id)]

\* the one answer to a failed login
FailedLogin ==
    Render("login", {<<"__all__", "Invalid username/email or password.">>},
           "Please fix the login errors.")

\* C19: a login with identifier and password given is answered either with
\* the redirect of a successful login or with one fixed page, the same
\* whether the username is unknown, the email is unknown or the password is
\* wrong; the failed login logs nobody in.
C19_FailedLoginUniform ==
    \A w \in Workers :
        (/\ IsLogin(w)
         /\ Strip(Val(workers[w].post).identifier) # ""
         /\ Strip(Val(workers[w].post).password) # "") =>
            /\ Answered(w)
            /\ \/ Val(workers[w].response).kind = "redirect"
               \/ /\ Val(workers[w].response) = FailedLogin
                  /\ IsNone(Val(workers[w].response).user)

C19_Witness ==
    /\ IsLogin("w1") /\ IsLogin("w2")
    /\ Val(workers["w1"].response) = FailedLogin
    /\ Val(workers["w2"].response) = FailedLogin
    /\ \E u \in users :
          /\ Val(workers["w1"].post).identifier = u.username
          /\ ~check_password(Val(workers["w1"].post).password, u.password)
    /\ Contains(Val(workers["w2"].post).identifier, "@")
    /\ \A u \in users :
          Lower(u.email) # Lower(Val(workers["w2"].post).identifier)

\* C20: no stored Submission has both submitted_by_student and
\* submitted_by_admin set.
C20_BothSubmittersRejected ==
    \A sub \in submissions :
        ~(/\ ~IsNone(sub.submitted_by_student_id)
          /\ ~IsNone(sub.submitted_by_admin_id))

\* C21: every stored Submission has exactly one of submitted_by_student and
\* submitted_by_admin set, after any saves and any deletions of the students
\* and admins they name.
C21_ExactlyOneSubmitter ==
    \A sub \in submissions :
        IsNone(sub.submitted_by_student_id) # IsNone(sub.submitted_by_admin_id)

\* C22: no two stored Bookmarks, no two stored Ratings and no two stored
\* Reports have the same (student, opportunity) pair.
C22_OnePerStudentAndOpportunity ==
    \A table \in {bookmarks, ratings, reports} :
        \A r1, r2 \in table :
            (r1.student_id = r2.student_id /\ r1.opportunity_id = r2.opportunity_id)
                => r1.id = r2.id

\* C30: a run of import_curated_opps that follows a run on the same file
\* leaves the Opportunity and OpportunityVersion tables as they were, with
\* --update-existing or without.
C30_SecondImportChangesNothing ==
    [][(/\ ~IsNone(outcome) /\ Val(outcome).op = "import_curated_opps"
        /\ ~IsNone(outcome') /\ Val(outcome').op = "import_curated_opps"
        /\ Val(outcome').payload = Val(outcome).payload)
           => (opportunities' = opportunities /\ versions' = versions)]_vars

\* C23: the names of the stored categories are pairwise distinct, and every
\* one of them is a name of DEFAULT_CATEGORIES of accounts/models.py.
C23_CategoriesFromDefaultCatalog ==
    /\ \A c1, c2 \in categories : c1.name = c2.name => c1.id = c2.id
    /\ \A c \in categories : InList(DEFAULT_CATEGORIES, c.name)

\* the last command run was seed_all
SeedRan == ~IsNone(outcome) /\ Val(outcome).op = "seed_all"

FailureMessages ==
    {"FAILED creating a student", "FAILED creating an opportunity",
     "Skipped one submission due to error", "Skipped one rating due to error",
     "Skipped one report due to error"}

Printed(messages) ==
    \E i \in 1..Len(Val(outcome).console) : Val(outcome).console[i] \in messages

\* C24: a run of seed_all that printed the failure of one record went on to
\* its end: no exception left the command, and the closing counts were
\* printed after the remaining records and stages.
C24_SeedingContinuesAfterFailure ==
    (SeedRan /\ Printed(FailureMessages))
        => /\ IsNone(Val(outcome).error)
           /\ Val(outcome).console[Len(Val(outcome).console)] = "SQL COUNT Students"

\* C25: a run of seed_all takes a stored opportunity away only with --reset,
\* --reset-opps and --opps above 0; with --reset, --reset-opps and --opps 0 it
\* ends with CommandError and leaves every table as it was.
C25_OpportunitiesKeptWithoutReset ==
    [][(~IsNone(outcome') /\ Val(outcome').op = "seed_all")
          => LET opts == Val(outcome').opts
             IN  /\ (\E o \in opportunities : o \notin opportunities')
                        => (opts.reset /\ opts.reset_opps /\ opts.opps > 0)
                 /\ (opts.reset /\ opts.reset_opps /\ opts.opps = 0)
                        => /\ Val(outcome').error = Some("CommandError")
                           /\ UNCHANGED <<users, students, categories,
                                          opportunities, oppSeq, versions,
                                          bookmarks, ratings, reports,
                                          submissions>>]_vars

\* the list the view gives for the request being served with region r and
\* city c selected in place of its own (the category selection kept)
ListedFor(r, c) ==
    SeqToSet(OpportunitiesContext(SetList(SetList(Req, "region", <<r>>), "city", <<c>>),
                                  categories, opportunities)
                 .page_obj.paginator.object_list)

\* the same with region r alone
ListedForRegion(r) ==
    SeqToSet(OpportunitiesContext(SetList(SetList(Req, "region", <<r>>), "city", <<>>),
                                  categories, opportunities)
                 .page_obj.paginator.object_list)

\* C26: the count the location menu shows for a catalog (region, city) is
\* the number of opportunities listed when that region and city are selected
\* with the same category selection, whatever the stored locations are.
C26_MenuCountIsListLength ==
    Served =>
        \A r \in Regions : \A c \in CitiesOf(r) :
            Ctx.location_menu[r][c] = Cardinality(ListedFor(r, c))

\* C27: for a catalog region r and a city c of r, every opportunity listed
\* for (r, c) is listed for r alone.
C27_CityNarrowsRegion ==
    Served =>
        \A r \in Regions : \A c \in CitiesOf(r) :
            ListedFor(r, c) \subseteq ListedForRegion(r)

\* C28: the context names a selected city only together with a selected
\* region, and only when the list is filtered by that region and city.
C28_CityOnlyWithRegion ==
    (Served /\ ~IsNone(Ctx.selected_city)) =>
        /\ ~IsNone(Ctx.selected_region)
        /\ Listed = LocationFilter(PassCategory, Ctx.selected_region,
                                   Ctx.selected_city)

\* C29: the submitted_by_type of every stored Submission is "student" exactly
\* when its submitted_by_student is set and "admin" exactly when its
\* submitted_by_admin is set.
C29_TypeAgreesWithSubmitter ==
    \A sub \in submissions :
        /\ (sub.submitted_by_type = Some("student"))
               <=> ~IsNone(sub.submitted_by_student_id)
        /\ (sub.submitted_by_type = Some("admin"))
               <=> ~IsNone(sub.submitted_by_admin_id)
=============================================================================
